---- MODULE Spec2Model ----
(***************************************************************************)
(* A model of the gemini retained-mode UI framework: the widget tree, the  *)
(* DOM event loop (DOM::run), the action dispatch layer (Hover, Click,     *)
(* Scroll) and the Trigger/Emitter/Signal bridge.                          *)
(*                                                                         *)
(* Lengths are f64 in the source.  The geometry of the tree below is       *)
(* chosen so that every quotient the modelled code computes is an exact    *)
(* integer, so Integers represent the values without rounding.             *)
(***************************************************************************)
EXTENDS Integers, Sequences, FiniteSets, TLC

\* ------------------------------------------------------------------------
\* Bounds of the model
\* ------------------------------------------------------------------------
\* most signals one emitter thread sends
MaxSends == 2
\* most signals waiting in the event-loop proxy
MaxQueue == 2
\* hover cycles counted per widget
MaxCycles == 2

\* ------------------------------------------------------------------------
\* Program constants
\* ------------------------------------------------------------------------
SCROLLBAR_SIZE == 10
SCROLLBAR_BUFFER == 5

\* ------------------------------------------------------------------------
\* Geometry primitives (ui/layout.rs)
\* ------------------------------------------------------------------------
Rect(x, y, w, h) == [x |-> x, y |-> y, w |-> w, h |-> h]
Pt(x, y) == [x |-> x, y |-> y]

\* TRUE for every value; makes TLC compute an accumulator before it recurses
Forced(v) == v = v

Max(a, b) == IF a >= b THEN a ELSE b
Min(a, b) == IF a <= b THEN a ELSE b
\* f64::clamp(lo, hi); the source panics when lo > hi
\* a clamp that forgets the upper bound
Clamp_lower(v, lo, hi) == IF v < lo THEN lo ELSE v
Clamp(v, lo, hi) == IF v < lo THEN lo ELSE IF v > hi THEN hi ELSE v

is_inbounds(l, mx, my) ==
    /\ mx >= l.x
    /\ mx <= l.x + l.w
    /\ my >= l.y
    /\ my <= l.y + l.h

\* ------------------------------------------------------------------------
\* The widget tree handed to DOM::add_widget (static structure)
\* ------------------------------------------------------------------------
Widgets == {"btn", "box", "inner", "kid", "cnv", "c00", "c10", "sbx", "sby"}

Kind(w) ==
    CASE w \in {"btn", "kid"}   -> "Button"
      [] w \in {"box", "inner"} -> "Container"
      [] w = "cnv"              -> "Canvas"
      [] w \in {"c00", "c10"}   -> "Cell"
      [] w \in {"sbx", "sby"}   -> "ScrollBar"

\* Container::children, in insertion order
children(w) ==
    CASE w = "box"   -> <<"inner">>
      [] w = "inner" -> <<"kid">>
      [] OTHER       -> <<>>

\* Container::scrollbar: <<x, y>> or <<>> for None
scrollbar(w) == IF w = "box" THEN <<"sbx", "sby">> ELSE <<>>

\* Canvas::grid: Grid.size and Grid.cells[y][x]; size.x = 0 stands for None
grid_size(w) == IF w = "cnv" THEN Pt(2, 1) ELSE Pt(0, 0)
grid_cells(w) == IF w = "cnv" THEN << <<"c00", "c10">> >> ELSE <<>>
grid_thickness == 1

\* widgets that were connect()-ed to an Emitter
has_emitter(w) == w \in {"btn", "box"}

\* the add_widget calls of the application, in order
TopLevel == <<"btn", "box", "cnv">>

\* colours
WHITE == "WHITE"
RED == "RED"
BLUE == "BLUE"
GREEN == "GREEN"
BLACK == "BLACK"
LIGHT_GRAY == "LIGHT_GRAY"

\* ------------------------------------------------------------------------
\* Widget construction (BaseWidget::default and the fluent setters)
\* ------------------------------------------------------------------------
BaseDefault ==
    [layout |-> Rect(0, 0, 0, 0), color |-> WHITE, radius |-> 0,
     offset |-> Pt(0, 0), hovered |-> FALSE, label |-> ""]

ScrollBar_new_x ==
    [BaseDefault EXCEPT !.layout = Rect(0, 0, 0 - 1, SCROLLBAR_SIZE),
                        !.color = LIGHT_GRAY]

ScrollBar_new_y ==
    [BaseDefault EXCEPT !.layout = Rect(0, 0, SCROLLBAR_SIZE, 0 - 1),
                        !.color = LIGHT_GRAY]

\* the layout and colour the application sets on each widget
InitBase(w) ==
    CASE w = "btn"   -> [BaseDefault EXCEPT !.layout = Rect(40, 0, 10, 10), !.color = GREEN]
      [] w = "box"   -> [BaseDefault EXCEPT !.layout = Rect(0, 0, 30, 30), !.color = GREEN]
      [] w = "inner" -> [BaseDefault EXCEPT !.layout = Rect(0, 0, 90, 90)]
      [] w = "kid"   -> [BaseDefault EXCEPT !.layout = Rect(0, 0, 10, 10), !.color = GREEN]
      [] w = "cnv"   -> [BaseDefault EXCEPT !.layout = Rect(40, 20, 20, 10)]
      [] w = "sbx"   -> ScrollBar_new_x
      [] w = "sby"   -> ScrollBar_new_y
      [] OTHER       -> BaseDefault

\* ------------------------------------------------------------------------
\* Actions (action/mod.rs) and their constructors
\* ------------------------------------------------------------------------
Hover_new(color) ==
    [kind |-> "Hover", hover_color |-> color, base_color |-> WHITE, hovered |-> FALSE]

\* Click::new(state) followed by .on(btn, callback) for each pair of `map`
Click_new(state, map) ==
    [kind |-> "Click", state |-> state, button_map |-> map]

Scroll_new ==
    [kind |-> "Scroll", axis |-> "None", cursor_offset |-> 0,
     scroll_delta |-> 0, max_scroll_range |-> 0]

\* the on_action / set_cells_actions calls of the application
InitActions(w) ==
    CASE w = "btn" -> << Hover_new(RED),
                         Click_new("init", [b \in {"LeftButton", "RightButtonRelease"} |->
                                               IF b = "LeftButton" THEN "onLeft" ELSE "onRightUp"]) >>
      [] w = "kid" -> << Hover_new(BLUE),
                         Click_new("init", [b \in {"LeftButton"} |-> "onLeft"]) >>
      [] w = "box" -> << Scroll_new >>
      [] w \in {"c00", "c10"} -> << Hover_new(RED) >>
      [] OTHER -> <<>>


\* ------------------------------------------------------------------------
\* DOM construction (ui/dom.rs: add_widget, add_widgets, apply_emitters)
\* ------------------------------------------------------------------------
\* the values rand::thread_rng().gen() returns, in draw order
UidDraws == <<11, 12, 13, 14, 15, 16, 17>>

\* Grid::on_cell: the cells in iteration order (rows outer, columns inner)
on_cell(w) ==
    LET sz == grid_size(w)
        n == sz.x * sz.y
    IN [k \in 1..n |->
          LET y == (k - 1) \div sz.x
              x == (k - 1) % sz.x
          IN [pos |-> Pt(x, y), cell |-> grid_cells(w)[y + 1][x + 1]]]

\* HashMap::insert
MapInsert(f, k, v) == [u \in DOMAIN f \cup {k} |-> IF u = k THEN v ELSE f[u]]

\* DOM::new; rng is what the random generator is going to return, emitters
\* the widgets built with an emitter, started the widgets whose emitter was
\* started, in the order of threads
DomWith(rng, emitters) ==
    [nodes |-> <<>>, nodes_ref |-> <<>>, trigger |-> <<>>, threads |-> <<>>, draws |-> 0,
     started |-> <<>>, rng |-> rng, emitters |-> emitters]

DomEmpty == DomWith(UidDraws, {w \in Widgets : has_emitter(w)})

RECURSIVE apply_emitters_from(_, _, _)
RECURSIVE apply_emitters(_, _)
apply_emitters(D, widget) ==
    LET D1 == IF widget \in D.emitters
              THEN [D EXCEPT !.threads = Append(@, D.trigger[widget]),
                             !.started = Append(@, widget)]
              ELSE D
    IN IF Kind(widget) = "Container"
       THEN apply_emitters_from(D1, children(widget), 1)
       ELSE D1
apply_emitters_from(D, kids, i) ==
    IF Forced(D) /\ i > Len(kids) THEN D
    ELSE apply_emitters_from(apply_emitters(D, kids[i]), kids, i + 1)

\* the grid cells given their triggers without an entry in the routing table
RECURSIVE add_cells_unrouted(_, _, _)
add_cells_unrouted(D, cells, i) ==
    IF Forced(D) /\ i > Len(cells) THEN D
    ELSE LET uid == D.rng[D.draws + 1]
             cell == cells[i].cell
         IN add_cells_unrouted([D EXCEPT !.draws = @ + 1,
                                         !.trigger = MapInsert(@, cell, uid)],
                               cells, i + 1)

RECURSIVE add_cells(_, _, _)
add_cells(D, cells, i) ==
    IF Forced(D) /\ i > Len(cells) THEN D
    ELSE LET uid == D.rng[D.draws + 1]
             cell == cells[i].cell
         IN add_cells([D EXCEPT !.draws = @ + 1,
                                !.trigger = MapInsert(@, cell, uid),
                                !.nodes_ref = MapInsert(@, uid, cell)],
                      cells, i + 1)

RECURSIVE add_widgets_from(_, _, _)
RECURSIVE add_widgets(_, _)
add_widgets(D, widget) ==
    LET uid == D.rng[D.draws + 1]
        D1 == [D EXCEPT !.draws = @ + 1,
                        !.trigger = MapInsert(@, widget, uid),
                        !.nodes_ref = MapInsert(@, uid, widget),
                        !.nodes = Append(@, widget)]
        D2 == IF Kind(widget) = "Canvas"
              THEN add_cells(D1, on_cell(widget), 1)
              ELSE IF Kind(widget) = "Container"
                   THEN add_widgets_from(D1, children(widget), 1)
                   ELSE D1
    IN apply_emitters(D2, widget)
add_widgets_from(D, kids, i) ==
    IF Forced(D) /\ i > Len(kids) THEN D
    ELSE add_widgets_from(add_widgets(D, kids[i]), kids, i + 1)

\* the DOM after the application's add_widget calls
Dom == add_widgets_from(DomEmpty, TopLevel, 1)
nodes == Dom.nodes
nodes_ref == Dom.nodes_ref
trigger == Dom.trigger
\* the emitter threads spawned, each named by its index, holding Trigger.uid
threads == Dom.threads
Threads == 1..Len(threads)


\* ------------------------------------------------------------------------
\* Events of the winit event loop and signals of the proxy (ui/sync.rs)
\* ------------------------------------------------------------------------
CursorMoved(p) == [type |-> "CursorMoved", pos |-> p]
MouseInput(button, state) == [type |-> "MouseInput", button |-> button, state |-> state]
RedrawRequested == [type |-> "RedrawRequested"]
CloseRequested == [type |-> "CloseRequested"]
UserEvent(signal) == [type |-> "UserEvent", signal |-> signal]

Signal_Update(uid) == [kind |-> "Update", uid |-> uid, f |-> "none"]
Signal_Callback(uid, f) == [kind |-> "Callback", uid |-> uid, f |-> f]

\* EventLoopProxy::send_event: queues the signal while the loop runs and
\* returns Err (which both callers discard) once it has exited
send_event_front(chan, run, signal) == IF run THEN <<signal>> \o chan ELSE chan

\* a proxy that queues the signal whether the loop runs or not
send_event_always(chan, run, signal) == Append(chan, signal)

send_event(chan, run, signal) == IF run THEN Append(chan, signal) ELSE chan

\* Trigger::update
Trigger_update(chan, run, uid) == send_event(chan, run, Signal_Update(uid))

Trigger_update_callback_bare(chan, run, uid, f) == send_event(chan, run, Signal_Update(uid))

\* Trigger::update_callback
Trigger_update_callback(chan, run, uid, f) == send_event(chan, run, Signal_Callback(uid, f))

\* ------------------------------------------------------------------------
\* Hover (action/hover.rs)
\* ------------------------------------------------------------------------
\* W is the state a handler works on:
\*   base, actions, channel and the per-event logs delivered, invoked, requests
Hover_apply_level(W, w, i, ev) ==
    IF ev.type # "CursorMoved" THEN W
    ELSE LET a == W.actions[w][i]
             hovered == is_inbounds(W.base[w].layout, ev.pos.x, ev.pos.y)
         IN IF hovered
            THEN [W EXCEPT !.actions[w][i] = [a EXCEPT !.hovered = TRUE,
                                                       !.base_color = W.base[w].color],
                           !.base[w].color = a.hover_color,
                           !.requests = Append(@, [w |-> w, kind |-> "redraw"])]
            ELSE [W EXCEPT !.actions[w][i].hovered = FALSE,
                           !.base[w].color = a.base_color,
                           !.requests = Append(@, [w |-> w, kind |-> "redraw"])]

Hover_apply_nosave(W, w, i, ev) ==
    IF ev.type # "CursorMoved" THEN W
    ELSE LET a == W.actions[w][i]
             hovered == is_inbounds(W.base[w].layout, ev.pos.x, ev.pos.y)
         IN IF a.hovered = hovered THEN W
            ELSE IF hovered
                 THEN [W EXCEPT !.actions[w][i].hovered = TRUE,
                                !.base[w].color = a.hover_color,
                                !.requests = Append(@, [w |-> w, kind |-> "redraw"])]
                 ELSE [W EXCEPT !.actions[w][i].hovered = FALSE,
                                !.base[w].color = a.base_color,
                                !.requests = Append(@, [w |-> w, kind |-> "redraw"])]

\* Hover::apply with the hit test on the rectangle the widget is drawn in
Hover_apply_drawn(W, w, i, ev) ==
    IF ev.type # "CursorMoved" THEN W
    ELSE LET a == W.actions[w][i]
             b == W.base[w]
             hovered == is_inbounds([b.layout EXCEPT !.x = @ + b.offset.x,
                                                     !.y = @ + b.offset.y],
                                    ev.pos.x, ev.pos.y)
         IN IF a.hovered = hovered THEN W
            ELSE IF hovered
                 THEN [W EXCEPT !.actions[w][i] = [a EXCEPT !.hovered = TRUE,
                                                            !.base_color = W.base[w].color],
                                !.base[w].color = a.hover_color,
                                !.requests = Append(@, [w |-> w, kind |-> "redraw"])]
                 ELSE [W EXCEPT !.actions[w][i].hovered = FALSE,
                                !.base[w].color = a.base_color,
                                !.requests = Append(@, [w |-> w, kind |-> "redraw"])]

Hover_apply(W, w, i, ev) ==
    IF ev.type # "CursorMoved" THEN W
    ELSE LET a == W.actions[w][i]
             previous_hover_state == a.hovered
             \* update_hover_state
             hovered == is_inbounds(W.base[w].layout, ev.pos.x, ev.pos.y)
         IN IF previous_hover_state = hovered THEN W
            ELSE IF hovered
                 THEN [W EXCEPT !.actions[w][i] = [a EXCEPT !.hovered = TRUE,
                                                            !.base_color = W.base[w].color],
                                !.base[w].color = a.hover_color,
                                !.requests = Append(@, [w |-> w, kind |-> "redraw"])]
                 ELSE [W EXCEPT !.actions[w][i].hovered = FALSE,
                                !.base[w].color = a.base_color,
                                !.requests = Append(@, [w |-> w, kind |-> "redraw"])]

\* ------------------------------------------------------------------------
\* Click (action/click.rs)
\* ------------------------------------------------------------------------
\* the (winit button, ElementState) -> MouseButton match of Click::apply
MouseButtonOf_anystate(button, state) ==
    CASE button = "Left"    -> "LeftButton"
      [] button = "Right"   -> "RightButton"
      [] button = "Middle"  -> "MiddleButton"
      [] button = "Back"    -> "BackButton"
      [] button = "Forward" -> "ForwardButton"
      [] OTHER              -> "OtherButton"

MouseButtonOf(button, state) ==
    CASE button = "Left" /\ state = "Pressed"     -> "LeftButton"
      [] button = "Left" /\ state = "Released"    -> "LeftButtonRelease"
      [] button = "Right" /\ state = "Pressed"    -> "RightButton"
      [] button = "Right" /\ state = "Released"   -> "RightButtonRelease"
      [] button = "Middle" /\ state = "Pressed"   -> "MiddleButton"
      [] button = "Middle" /\ state = "Released"  -> "MiddleButtonRelease"
      [] button = "Back" /\ state = "Pressed"     -> "BackButton"
      [] button = "Back" /\ state = "Released"    -> "BackButtonRelease"
      [] button = "Forward" /\ state = "Pressed"  -> "ForwardButton"
      [] button = "Forward" /\ state = "Released" -> "ForwardButtonRelease"
      [] state = "Pressed"                        -> "OtherButton"
      [] OTHER                                    -> "OtherButtonReleased"

\* the closures the application registered with Click::on: each records its
\* own name in the Click's user state and sets the widget's corner radius
Callback_state(h) == h
Callback_radius(h) == IF h = "onLeft" THEN 1 ELSE 2
\* the callback "paint" sets widget.style.color, the others leave it alone
Callback_color(h, color) == IF h = "paint" THEN BLUE ELSE color

Click_apply_unhovered(W, w, i, ev) ==
    IF ev.type = "CursorMoved"
    THEN [W EXCEPT !.base[w].hovered = is_inbounds(W.base[w].layout, ev.pos.x, ev.pos.y)]
    ELSE IF ev.type = "MouseInput"
    THEN LET a == W.actions[w][i]
             button == MouseButtonOf(ev.button, ev.state)
         IN IF button \in DOMAIN a.button_map
            THEN LET handler == a.button_map[button]
                 IN [W EXCEPT !.actions[w][i].state = Callback_state(handler),
                              !.base[w].radius = Callback_radius(handler),
                              !.invoked = Append(@, [w |-> w, handler |-> handler,
                                                     button |-> button])]
            ELSE W
    ELSE W

Click_apply(W, w, i, ev) ==
    IF ev.type = "CursorMoved"
    THEN [W EXCEPT !.base[w].hovered = is_inbounds(W.base[w].layout, ev.pos.x, ev.pos.y)]
    ELSE IF ev.type = "MouseInput"
    THEN LET a == W.actions[w][i]
             button == MouseButtonOf(ev.button, ev.state)
         IN IF W.base[w].hovered /\ button \in DOMAIN a.button_map
            THEN LET handler == a.button_map[button]
                 IN [W EXCEPT !.actions[w][i].state = Callback_state(handler),
                              !.base[w].radius = Callback_radius(handler),
                              !.base[w].color = Callback_color(handler, @),
                              !.invoked = Append(@, [w |-> w, handler |-> handler,
                                                     button |-> button])]
            ELSE W
    ELSE W


\* ------------------------------------------------------------------------
\* Scroll (action/scroll.rs)
\* ------------------------------------------------------------------------
\* f64 division; every quotient taken in this model is exact
FDiv(a, b) == a \div b

\* the largest child width, starting the fold from `init`
RECURSIVE fold_max_w(_, _, _, _)
fold_max_w(base, kids, i, acc) ==
    IF i > Len(kids) THEN acc
    ELSE fold_max_w(base, kids, i + 1, Max(base[kids[i]].layout.w, acc))

Scroll_on_pressed(W, w, i, last_cursor_pos) ==
    LET x == scrollbar(w)[1]
        y == scrollbar(w)[2]
        x_base == W.base[x]
        y_base == W.base[y]
        W1 == IF x_base.hovered
              THEN [W EXCEPT !.actions[w][i].axis = "X",
                             !.actions[w][i].cursor_offset = last_cursor_pos.x - x_base.layout.x]
              ELSE W
    IN IF y_base.hovered
       THEN [W1 EXCEPT !.actions[w][i].axis = "Y",
                       !.actions[w][i].cursor_offset = last_cursor_pos.y - y_base.layout.y]
       ELSE W1

Scroll_compute_scroll(W, w, i) ==
    LET widget_base == W.base[w]
        x == scrollbar(w)[1]
        y == scrollbar(w)[2]
        kids == children(w)
    IN IF W.actions[w][i].axis = "X"
       THEN LET container_width == widget_base.layout.w + widget_base.layout.x
                overflow_x == fold_max_w(W.base, kids, 1, container_width)
                total_overflow == overflow_x - container_width
                scrollbar_buffer == W.base[x].layout.w
                true_scroll_range == container_width - scrollbar_buffer
                content_offset == widget_base.layout.x
                delta == FDiv(total_overflow,
                              true_scroll_range - content_offset - SCROLLBAR_BUFFER)
            IN [W EXCEPT !.actions[w][i].max_scroll_range = true_scroll_range,
                         !.actions[w][i].scroll_delta = delta]
       ELSE LET last_child_base == W.base[kids[Len(kids)]]
                overflow_y == last_child_base.layout.y + last_child_base.layout.h
                container_height == widget_base.layout.h + widget_base.layout.y
                total_overflow == overflow_y - container_height
                scrollbar_buffer == W.base[y].layout.h
                true_scroll_range == container_height - scrollbar_buffer
                content_offset == widget_base.layout.y
                delta == FDiv(total_overflow,
                              true_scroll_range - content_offset - SCROLLBAR_BUFFER)
            IN [W EXCEPT !.actions[w][i].max_scroll_range = true_scroll_range,
                         !.actions[w][i].scroll_delta = delta]

Scroll_on_cursor_movement(W, w, pos) ==
    LET x == scrollbar(w)[1]
        y == scrollbar(w)[2]
        W1 == IF is_inbounds(W.base[x].layout, pos.x, pos.y)
              THEN [W EXCEPT !.base[x].hovered = TRUE]
              ELSE W
    IN IF is_inbounds(W1.base[y].layout, pos.x, pos.y)
       THEN [W1 EXCEPT !.base[y].hovered = TRUE]
       ELSE W1

\* a loop that moves the children themselves instead of their offset
RECURSIVE shift_children_folded(_, _, _, _, _)
shift_children_folded(base, kids, k, axis, shift) ==
    IF Forced(base) /\ k > Len(kids) THEN base
    ELSE shift_children_folded(
           IF axis = "X"
           THEN [base EXCEPT ![kids[k]].layout.x = @ - shift]
           ELSE [base EXCEPT ![kids[k]].layout.y = @ - shift],
           kids, k + 1, axis, shift)

\* sets offset.x (axis X) or offset.y (axis Y) of every child to -shift
RECURSIVE shift_children(_, _, _, _, _)
shift_children(base, kids, k, axis, shift) ==
    IF Forced(base) /\ k > Len(kids) THEN base
    ELSE shift_children(
           IF axis = "X"
           THEN [base EXCEPT ![kids[k]].offset.x = 0 - shift]
           ELSE [base EXCEPT ![kids[k]].offset.y = 0 - shift],
           kids, k + 1, axis, shift)

Scroll_on_scroll_movement(W, w, i, pos) ==
    LET a == W.actions[w][i]
        x == scrollbar(w)[1]
        y == scrollbar(w)[2]
        widget_base == W.base[w]
    IN IF a.axis = "X"
       THEN LET new_x == Clamp(pos.x - a.cursor_offset, widget_base.layout.x,
                               a.max_scroll_range)
                shift == (new_x - widget_base.layout.x) * a.scroll_delta
            IN [W EXCEPT !.base = shift_children([W.base EXCEPT ![x].layout.x = new_x],
                                                 children(w), 1, "X", shift)]
       ELSE LET new_y == Clamp(pos.y - a.cursor_offset, widget_base.layout.y,
                               a.max_scroll_range)
                shift == (new_y - widget_base.layout.y) * a.scroll_delta
            IN [W EXCEPT !.base = shift_children([W.base EXCEPT ![y].layout.y = new_y],
                                                 children(w), 1, "Y", shift)]

Scroll_apply(W, w, i, ev, last_cursor_pos) ==
    IF ev.type = "CursorMoved"
    THEN IF W.actions[w][i].axis # "None"
         THEN LET W1 == Scroll_on_scroll_movement(W, w, i, ev.pos)
              IN [W1 EXCEPT !.channel = Trigger_update(@, TRUE, trigger[w]),
                            !.requests = Append(@, [w |-> w, kind |-> "update"])]
         ELSE Scroll_on_cursor_movement(W, w, ev.pos)
    ELSE IF ev.type = "MouseInput" /\ ev.button = "Left" /\ ev.state = "Pressed"
    THEN LET W1 == Scroll_on_pressed(W, w, i, last_cursor_pos)
         IN IF W1.actions[w][i].axis # "None"
            THEN Scroll_compute_scroll(W1, w, i)
            ELSE W1
    ELSE IF ev.type = "MouseInput" /\ ev.button = "Left" /\ ev.state = "Released"
    THEN [W EXCEPT !.actions[w][i].axis = "None"]
    ELSE W

\* ------------------------------------------------------------------------
\* Action::apply_action and DOM::apply_actions (action/mod.rs, ui/dom.rs)
\* ------------------------------------------------------------------------
apply_action(W, w, i, ev, cursor_pos) ==
    LET W1 == [W EXCEPT !.delivered = Append(@, <<w, i>>)]
        kind == W.actions[w][i].kind
    IN CASE kind = "Hover"  -> Hover_apply(W1, w, i, ev)
         [] kind = "Scroll" -> Scroll_apply(W1, w, i, ev, cursor_pos)
         [] kind = "Click"  -> Click_apply(W1, w, i, ev)

\* the `for action in actions.iter_mut()` loop over one widget's actions
RECURSIVE each_action(_, _, _, _, _)
each_action(W, w, i, ev, cursor_pos) ==
    IF Forced(W) /\ i > Len(W.actions[w]) THEN W
    ELSE each_action(apply_action(W, w, i, ev, cursor_pos), w, i + 1, ev, cursor_pos)

RECURSIVE each_cell(_, _, _, _, _)
each_cell(W, cells, k, ev, cursor_pos) ==
    IF Forced(W) /\ k > Len(cells) THEN W
    ELSE each_cell(each_action(W, cells[k].cell, 1, ev, cursor_pos),
                   cells, k + 1, ev, cursor_pos)

RECURSIVE apply_actions_from(_, _, _, _, _)
RECURSIVE apply_actions(_, _, _, _)
apply_actions(W, node, ev, cursor_pos) ==
    LET W1 == each_action(W, node, 1, ev, cursor_pos)
    IN IF Kind(node) = "Canvas"
       THEN each_cell(W1, on_cell(node), 1, ev, cursor_pos)
       ELSE IF Kind(node) = "Container"
            THEN apply_actions_from(W1, children(node), 1, ev, cursor_pos)
            ELSE W1
apply_actions_from(W, list, k, ev, cursor_pos) ==
    IF Forced(W) /\ k > Len(list) THEN W
    ELSE apply_actions_from(apply_actions(W, list[k], ev, cursor_pos),
                            list, k + 1, ev, cursor_pos)


\* ------------------------------------------------------------------------
\* Layout resolution before a redraw (render/pre.rs, ui/widget/container.rs,
\* ui/layout.rs).  Every container of this tree has FlexLayout::None and no
\* alignment flag, and every label is empty.
\* ------------------------------------------------------------------------
grid_color == BLACK

\* PreRenderer::adjust_text_layout: nothing to do for an empty label
adjust_text_layout(base, w) == base

\* Container::snap_to_parent
snap_to_parent(base, parent, child) ==
    [base EXCEPT ![child].layout.x = @ + base[parent].layout.x,
                 ![child].layout.y = @ + base[parent].layout.y]

\* Container::create_normal_layout with halign = valign = false
RECURSIVE create_normal_layout(_, _, _)
create_normal_layout(base, w, k) ==
    IF Forced(base) /\ k > Len(children(w)) THEN base
    ELSE create_normal_layout(snap_to_parent(base, w, children(w)[k]), w, k + 1)

\* PreRenderer::adjust_layout
adjust_layout(base, w) == create_normal_layout(base, w, 1)

\* PreRenderer::adjust_scrolling
adjust_scrolling(base, w) ==
    IF scrollbar(w) = <<>> THEN base
    ELSE LET x == scrollbar(w)[1]
             y == scrollbar(w)[2]
             wb == base[w]
             kids == children(w)
             container_width == wb.layout.w + wb.layout.x
             overflow_x == fold_max_w(base, kids, 1, container_width)
             \* amount_to_take < 1.0  <=>  container_width < overflow_x
             x_w == IF container_width < overflow_x
                    THEN FDiv(container_width * wb.layout.w, overflow_x)
                    ELSE base[x].layout.w
             container_height == wb.layout.h + wb.layout.y
             last_child_base == base[kids[Len(kids)]]
             overflow_y == last_child_base.layout.y + last_child_base.layout.h
             y_h == IF container_height < overflow_y
                    THEN FDiv(container_height * wb.layout.h, overflow_y)
                    ELSE base[y].layout.h
         IN [base EXCEPT
               ![x].layout.y = (wb.layout.h + wb.layout.y) - base[x].layout.h,
               ![x].layout.x = IF @ = 0 THEN wb.layout.x ELSE @,
               ![x].layout.w = x_w,
               ![y].layout.x = (wb.layout.w + wb.layout.x) - base[y].layout.w,
               ![y].layout.y = IF @ = 0 THEN wb.layout.y ELSE @,
               ![y].layout.h = y_h]

\* Grid::resize, the closure run on one cell, with the gutter left out of
\* the cell's size
Grid_cell_layout_wide(pos, size, thickness, x, y, height, width) ==
    LET h_cell_size == FDiv(height, size.y)
        w_cell_size == FDiv(width, size.x)
        buffer_x == pos.x * w_cell_size
        buffer_y == pos.y * h_cell_size
    IN Rect((IF buffer_x > 0 THEN buffer_x + thickness ELSE 0) + x,
            (IF buffer_y > 0 THEN buffer_y + thickness ELSE 0) + y,
            w_cell_size, h_cell_size)

\* Grid::resize, the closure run on one cell, with the gutter left out of
\* the cell's position
Grid_cell_layout_flush(pos, size, thickness, x, y, height, width) ==
    LET h_cell_size == FDiv(height, size.y)
        w_cell_size == FDiv(width, size.x)
        buffer_x == pos.x * w_cell_size
        buffer_y == pos.y * h_cell_size
    IN Rect(buffer_x + x, buffer_y + y,
            IF buffer_x > 0 THEN w_cell_size - thickness ELSE w_cell_size,
            IF buffer_y > 0 THEN h_cell_size - thickness ELSE h_cell_size)

\* Grid::resize, the closure run on the cell at pos of a grid of the given
\* size and thickness
Grid_cell_layout(pos, size, thickness, x, y, height, width) ==
    LET h_cell_size == FDiv(height, size.y)
        w_cell_size == FDiv(width, size.x)
        buffer_x == pos.x * w_cell_size
        buffer_y == pos.y * h_cell_size
    IN Rect((IF buffer_x > 0 THEN buffer_x + thickness ELSE 0) + x,
            (IF buffer_y > 0 THEN buffer_y + thickness ELSE 0) + y,
            IF buffer_x > 0 THEN w_cell_size - thickness ELSE w_cell_size,
            IF buffer_y > 0 THEN h_cell_size - thickness ELSE h_cell_size)

\* Grid::resize
RECURSIVE Grid_resize(_, _, _, _, _, _, _)
Grid_resize(base, w, k, x, y, height, width) ==
    IF Forced(base) /\ k > Len(on_cell(w)) THEN base
    ELSE LET c == on_cell(w)[k].cell
             lay == Grid_cell_layout(on_cell(w)[k].pos, grid_size(w), grid_thickness,
                                     x, y, height, width)
         IN Grid_resize([base EXCEPT ![c].color = grid_color, ![c].layout = lay],
                        w, k + 1, x, y, height, width)

\* Grid::resize on a grid taken by itself: cells[row + 1][col + 1] is the
\* layout of the cell at Pt(col, row)
Grid_resize_cells(size, thickness, x, y, height, width) ==
    [r \in 1..size.y |->
        [c \in 1..size.x |->
            Grid_cell_layout(Pt(c - 1, r - 1), size, thickness, x, y, height, width)]]

\* PreRenderer::adjust_children
RECURSIVE adjust_children_from(_, _, _)
RECURSIVE adjust_children(_, _)
adjust_children(base, w) ==
    LET b1 == adjust_text_layout(base, w)
    IN IF Kind(w) = "Container"
       THEN adjust_children_from(b1, children(w), 1)
       ELSE b1
adjust_children_from(base, kids, k) ==
    IF Forced(base) /\ k > Len(kids) THEN base
    ELSE adjust_children_from(adjust_children(base, kids[k]), kids, k + 1)

\* PreRenderer::adjust
RECURSIVE adjust_from(_, _, _)
RECURSIVE adjust(_, _)
adjust(base, w) ==
    LET b1 == adjust_children(base, w)
    IN IF Kind(w) = "Container"
       THEN adjust_from(adjust_scrolling(adjust_layout(b1, w), w), children(w), 1)
       ELSE IF Kind(w) = "Canvas" /\ grid_size(w).x > 0
            THEN Grid_resize(b1, w, 1, b1[w].layout.x, b1[w].layout.y,
                             b1[w].layout.h, b1[w].layout.w)
            ELSE b1
adjust_from(base, kids, k) ==
    IF Forced(base) /\ k > Len(kids) THEN base
    ELSE adjust_from(adjust(base, kids[k]), kids, k + 1)

\* ------------------------------------------------------------------------
\* Renderer (render/pixels_backend.rs): the frame is the list of renderer
\* calls of one handler; draw_widget(w) is recorded as <<"paint", w>>
\* ------------------------------------------------------------------------
RECURSIVE paint_cells(_, _, _)
paint_cells(fr, cells, k) ==
    IF Forced(fr) /\ k > Len(cells) THEN fr
    ELSE paint_cells(Append(fr, <<"paint", cells[k].cell>>), cells, k + 1)

RECURSIVE draw_from(_, _, _)
RECURSIVE draw(_, _)
draw(fr, w) ==
    IF Kind(w) = "Container"
    THEN LET f1 == draw_from(Append(fr, <<"paint", w>>), children(w), 1)
         IN IF scrollbar(w) # <<>>
            THEN f1 \o << <<"paint", scrollbar(w)[1]>>, <<"paint", scrollbar(w)[2]>> >>
            ELSE f1
    ELSE IF Kind(w) = "Canvas" /\ grid_size(w).x > 0
         THEN paint_cells(Append(fr, <<"paint", w>>), on_cell(w), 1)
         ELSE Append(fr, <<"paint", w>>)
draw_from(fr, kids, k) ==
    IF Forced(fr) /\ k > Len(kids) THEN fr
    ELSE draw_from(draw(fr, kids[k]), kids, k + 1)

\* the RedrawRequested arm of DOM::run: adjust and draw every node in turn
RECURSIVE redraw_nodes(_, _)
redraw_nodes(R, k) ==
    IF Forced(R) /\ k > Len(nodes) THEN R
    ELSE LET b1 == adjust(R.base, nodes[k])
         IN redraw_nodes([base |-> b1, frame |-> draw(R.frame, nodes[k])], k + 1)

\* the Signal::Update arm of DOM::run, clearing the whole frame
dirty_redraw_full(base, id) ==
    draw(<< <<"clear">> >>, nodes_ref[id]) \o << <<"present">> >>

\* the Signal::Update arm of DOM::run
dirty_redraw(base, id) ==
    LET widget == nodes_ref[id]
        l == base[widget].layout
    IN draw(<< <<"dirty_clear", l.x, l.y, l.h, l.w>> >>, widget) \o << <<"present">> >>

\* the mutation closures the emitters hand to Trigger::update_callback
WidgetCallback_call(b, f) == [b EXCEPT !.color = IF f = "setRed" THEN RED ELSE BLUE]

\* The Signal::Callback arm of DOM::run.  The enum variant and its sender are
\* in ui/sync.rs; the arm itself is not in ui/dom.rs, whose match on the
\* signal would otherwise not be exhaustive.  It is modelled as documented:
\* look the widget up by id, apply the closure on the UI thread, then redraw
\* the widget's rectangle.
run_Callback(base, id, f) ==
    LET w == nodes_ref[id]
        b1 == [base EXCEPT ![w] = WidgetCallback_call(@, f)]
    IN [base |-> b1, frame |-> dirty_redraw(b1, id), applied |-> <<[uid |-> id, f |-> f]>>]


\* ------------------------------------------------------------------------
\* The event loop (DOM::run) and the emitter threads
\* ------------------------------------------------------------------------
VARIABLES
    cursor_position,  \* DOM.cursor_position
    base,             \* the BaseWidget of every widget
    actions,          \* the Vec<Action> of every widget, with each action's state
    channel,          \* signals sent through the EventLoopProxy, not yet handled
    running,          \* FALSE once target.exit() was called
    sent,             \* per emitter thread: number of Trigger calls made
    lastEvent,        \* the event the loop handled last
    delivered,        \* <<widget, action index>> of every apply_action call of that event
    invoked,          \* the Click callbacks run for that event
    requests,         \* the redraw requests made for that event
    frame,            \* the renderer calls made for that event
    applied,          \* per emitter thread: number of its callbacks the loop has applied
    hist,             \* per hovering widget: colour before the first entry, cycles completed
    actor,            \* the thread that took the last step: UiThread or EmitterThread(t)
    lab               \* a grid or a container taken by itself, and the call made on it

UiThread == <<"ui", 0>>
EmitterThread(t) == <<"emitter", t>>

vars == <<cursor_position, base, actions, channel, running, sent, lastEvent,
          delivered, invoked, requests, frame, applied, hist, actor, lab>>

\* cursor positions the window system reports: inside "kid", on the corner of
\* "btn", inside cell "c00", on the x thumb, on the y thumb, and inside "box"
\* but outside "kid" and both thumbs
InKid == Pt(5, 5)
OnBtnEdge == Pt(50, 10)
InCell == Pt(45, 25)
OnThumbX == Pt(5, 25)
OnThumbY == Pt(25, 5)
InBox == Pt(15, 15)
\* the cursor dragged far beyond the container, to either side
FarOut == Pt(200, 200)
FarBack == Pt(0 - 50, 0 - 50)
Buttons == {"Left", "Right"}
ElementStates == {"Pressed", "Released"}

\* index of the Hover action of a widget, 0 when it has none
HoverIdx(w) ==
    IF \E i \in 1..Len(InitActions(w)) : InitActions(w)[i].kind = "Hover"
    THEN CHOOSE i \in 1..Len(InitActions(w)) : InitActions(w)[i].kind = "Hover"
    ELSE 0
HoverWidgets == {w \in Widgets : HoverIdx(w) > 0}
ClickIdx(w) ==
    IF \E i \in 1..Len(InitActions(w)) : InitActions(w)[i].kind = "Click"
    THEN CHOOSE i \in 1..Len(InitActions(w)) : InitActions(w)[i].kind = "Click"
    ELSE 0
ClickWidgets == {w \in Widgets : ClickIdx(w) > 0}

NoLab == [kind |-> "none"]

InitDom ==
    /\ cursor_position = Pt(0, 0)
    /\ base = [w \in Widgets |-> InitBase(w)]
    /\ actions = [w \in Widgets |-> InitActions(w)]
    /\ channel = <<>>
    /\ running = TRUE
    /\ sent = [t \in Threads |-> 0]
    /\ lastEvent = [type |-> "none"]
    /\ delivered = <<>>
    /\ invoked = <<>>
    /\ requests = <<>>
    /\ frame = <<>>
    /\ applied = [t \in Threads |-> 0]
    /\ hist = [w \in HoverWidgets |-> [first |-> "none", cycles |-> 0]]
    /\ actor = UiThread

Init == InitDom /\ lab = NoLab

\* one iteration of the closure passed to event_loop.run
run(S, ev) ==
    LET cursor == IF ev.type = "CursorMoved" THEN ev.pos ELSE S.cursor_position
        R == IF ev.type = "RedrawRequested"
             THEN LET r == redraw_nodes([base |-> S.base, frame |-> << <<"clear">> >>], 1)
                  IN [base |-> r.base, frame |-> Append(r.frame, <<"present">>),
                      applied |-> <<>>]
             ELSE IF ev.type = "UserEvent" /\ ev.signal.kind = "Update"
                  THEN [base |-> S.base, frame |-> dirty_redraw(S.base, ev.signal.uid),
                        applied |-> <<>>]
             ELSE IF ev.type = "UserEvent" /\ ev.signal.kind = "Callback"
                  THEN run_Callback(S.base, ev.signal.uid, ev.signal.f)
                  ELSE [base |-> S.base, frame |-> <<>>, applied |-> <<>>]
        W == apply_actions_from(
               [base |-> R.base, actions |-> S.actions, channel |-> S.channel,
                delivered |-> <<>>, invoked |-> <<>>, requests |-> <<>>],
               nodes, 1, ev, cursor)
    IN [cursor_position |-> cursor,
        running |-> IF ev.type = "CloseRequested" THEN FALSE ELSE S.running,
        base |-> W.base, actions |-> W.actions, channel |-> W.channel,
        delivered |-> W.delivered, invoked |-> W.invoked, requests |-> W.requests,
        frame |-> R.frame, applied |-> R.applied]

\* bookkeeping of hover cycles, derived from the step taken
HistNext(b0, a0, b1, a1) ==
    [w \in HoverWidgets |->
        LET i == HoverIdx(w)
            h0 == a0[w][i].hovered
            h1 == a1[w][i].hovered
        IN IF ~h0 /\ h1
           THEN [hist[w] EXCEPT !.first = IF @ = "none" THEN b0[w].color ELSE @]
           ELSE IF h0 /\ ~h1
           THEN [hist[w] EXCEPT !.cycles = Min(@ + 1, MaxCycles)]
           ELSE IF b1[w].color # b0[w].color
           THEN [first |-> "none", cycles |-> 0]
           ELSE hist[w]]

Handle(ev, chan) ==
    LET S == [cursor_position |-> cursor_position, base |-> base, actions |-> actions,
              channel |-> chan, running |-> running]
    IN \E T \in {run(S, ev)} :
       /\ running
       /\ Len(T.channel) <= MaxQueue
       /\ cursor_position' = T.cursor_position
       /\ base' = T.base
       /\ actions' = T.actions
       /\ channel' = T.channel
       /\ running' = T.running
       /\ delivered' = T.delivered
       /\ invoked' = T.invoked
       /\ requests' = T.requests
       /\ frame' = T.frame
       /\ applied' = [t \in Threads |->
                        applied[t] + Cardinality({k \in 1..Len(T.applied) :
                                                     T.applied[k].uid = threads[t]})]
       /\ lastEvent' = ev
       /\ hist' = HistNext(base, actions, T.base, T.actions)
       /\ actor' = UiThread
       /\ UNCHANGED <<sent, lab>>

OnCursorMoved(P) == \E p \in P : Handle(CursorMoved(p), channel)

OnMouseInput(B) == \E b \in B, st \in ElementStates : Handle(MouseInput(b, st), channel)

OnRedrawRequested == Handle(RedrawRequested, channel)

OnCloseRequested == Handle(CloseRequested, channel)

OnUserEvent ==
    /\ channel # <<>>
    /\ Handle(UserEvent(Head(channel)), Tail(channel))

\* the user's Emitter::run of thread t: the emitter of "btn" asks for bare
\* redraws, every other emitter sends the mutations setRed, setBlue, setRed, ...
EmitterCall(t) ==
    IF nodes_ref[threads[t]] = "btn" THEN "update"
    ELSE IF sent[t] % 2 = 0 THEN "setRed" ELSE "setBlue"

Emitter_run_direct(E, t, call) ==
    IF call = "update"
    THEN [E EXCEPT !.channel = Trigger_update(@, E.running, threads[t])]
    ELSE [E EXCEPT !.base[nodes_ref[threads[t]]].color = IF call = "setRed" THEN RED ELSE BLUE,
                   !.channel = Trigger_update(@, E.running, threads[t])]

Emitter_run(E, t, call) ==
    IF call = "update"
    THEN [E EXCEPT !.channel = Trigger_update(@, E.running, threads[t])]
    ELSE [E EXCEPT !.channel = Trigger_update_callback(@, E.running, threads[t], call)]

EmitterStep ==
    \E t \in Threads :
        \E E \in {Emitter_run([base |-> base, actions |-> actions, channel |-> channel,
                              running |-> running], t, EmitterCall(t))} :
           /\ sent[t] < MaxSends
           /\ Len(E.channel) <= MaxQueue
           /\ sent' = [sent EXCEPT ![t] = @ + 1]
           /\ base' = E.base
           /\ actions' = E.actions
           /\ channel' = E.channel
           /\ actor' = EmitterThread(t)
           /\ hist' = HistNext(base, actions, E.base, E.actions)
           /\ UNCHANGED <<cursor_position, running, lastEvent, delivered, invoked,
                          requests, frame, applied, lab>>

\* Input dispatch: cursor moves over the widgets that carry Hover and Click,
\* every button event, redraws.  No emitter sends and no thumb is touched.
Next ==
    \/ OnCursorMoved({InKid, OnBtnEdge, InCell, InBox})
    \/ OnMouseInput(Buttons)
    \/ OnRedrawRequested

Spec == Init /\ [][Next]_vars

\* Scrolling: cursor moves over the thumbs of "box", left button, redraws and
\* the Update signals the Scroll action sends.
NextScroll ==
    \/ OnCursorMoved({InBox, OnThumbX, OnThumbY, FarOut, FarBack})
    \/ OnMouseInput({"Left"})
    \/ OnRedrawRequested
    \/ OnUserEvent

SpecScroll == Init /\ [][NextScroll]_vars

\* The signal bridge: the emitter threads, the signals they send, and the UI
\* thread handling them between other events.
NextAsync ==
    \/ EmitterStep
    \/ OnUserEvent
    \/ OnCursorMoved({OnBtnEdge, InBox})
    \/ OnRedrawRequested
    \/ OnCloseRequested

SpecAsync == Init /\ [][NextAsync]_vars

\* Hit-testing in a scrolled container: the application gives "inner", the
\* child that the Scroll of "box" moves, a Hover and a Click of its own
HitActions(w) ==
    IF w = "inner"
    THEN << Hover_new(RED), Click_new("init", [b \in {"LeftButton"} |-> "onLeft"]) >>
    ELSE InitActions(w)

InitHit ==
    /\ cursor_position = Pt(0, 0)
    /\ base = [w \in Widgets |-> InitBase(w)]
    /\ actions = [w \in Widgets |-> HitActions(w)]
    /\ channel = <<>>
    /\ running = TRUE
    /\ sent = [t \in Threads |-> 0]
    /\ lastEvent = [type |-> "none"]
    /\ delivered = <<>>
    /\ invoked = <<>>
    /\ requests = <<>>
    /\ frame = <<>>
    /\ applied = [t \in Threads |-> 0]
    /\ hist = [w \in HoverWidgets |-> [first |-> "none", cycles |-> 0]]
    /\ actor = UiThread
    /\ lab = NoLab

\* cursor positions left of the window and right of "box", both at the height
\* of the first rows of "inner"
LeftOfBox == Pt(0 - 50, 5)
RightOfBox == Pt(45, 5)

NextHit ==
    \/ OnCursorMoved({OnThumbX, FarOut, LeftOfBox, RightOfBox})
    \/ OnMouseInput({"Left"})
    \/ OnRedrawRequested

SpecHit == InitHit /\ [][NextHit]_vars

\* A colour set while hovered: the application gives "btn" a Hover and a Click
\* whose left-button callback sets the widget's colour
PaintActions(w) ==
    IF w = "btn"
    THEN << Hover_new(RED), Click_new("init", [b \in {"LeftButton"} |-> "paint"]) >>
    ELSE InitActions(w)

InitPaint ==
    /\ cursor_position = Pt(0, 0)
    /\ base = [w \in Widgets |-> InitBase(w)]
    /\ actions = [w \in Widgets |-> PaintActions(w)]
    /\ channel = <<>>
    /\ running = TRUE
    /\ sent = [t \in Threads |-> 0]
    /\ lastEvent = [type |-> "none"]
    /\ delivered = <<>>
    /\ invoked = <<>>
    /\ requests = <<>>
    /\ frame = <<>>
    /\ applied = [t \in Threads |-> 0]
    /\ hist = [w \in HoverWidgets |-> [first |-> "none", cycles |-> 0]]
    /\ actor = UiThread
    /\ lab = NoLab

NextPaint ==
    \/ OnCursorMoved({InKid, OnBtnEdge, InCell, InBox})
    \/ OnMouseInput({"Left"})
    \/ OnRedrawRequested

SpecPaint == InitPaint /\ [][NextPaint]_vars

domVars == <<cursor_position, base, actions, channel, running, sent, lastEvent,
             delivered, invoked, requests, frame, applied, hist, actor>>

\* ------------------------------------------------------------------------
\* Grid::resize on grids of several sizes (ui/layout.rs)
\* ------------------------------------------------------------------------
\* the grids and the arguments of resize: every width is a multiple of every
\* number of columns and every height of every number of rows, so that the
\* cell sizes are the exact quotients the f64 division gives
GridSizes == {1, 2, 4}
GridThickness == {0, 1, 3}
GridOrigins == {0, 3}
GridWidths == {0, 8, 32}
GridHeights == {0, 16}

\* Grid::new: size.y rows of size.x default cells
Grid_new(size, thickness) ==
    [kind |-> "grid", size |-> size, thickness |-> thickness,
     cells |-> [r \in 1..size.y |-> [c \in 1..size.x |-> Rect(0, 0, 0, 0)]],
     resized |-> FALSE, x |-> 0, y |-> 0, height |-> 0, width |-> 0]

InitGrid ==
    /\ InitDom
    /\ \E sx \in GridSizes, sy \in GridSizes, t \in GridThickness :
          lab = Grid_new(Pt(sx, sy), t)

\* one call of Grid::resize
GridResize ==
    /\ lab.kind = "grid"
    /\ ~lab.resized
    /\ \E x \in GridOrigins, y \in GridOrigins, height \in GridHeights, width \in GridWidths :
          lab' = [lab EXCEPT !.cells = Grid_resize_cells(lab.size, lab.thickness,
                                                         x, y, height, width),
                             !.resized = TRUE,
                             !.x = x, !.y = y, !.height = height, !.width = width]
    /\ UNCHANGED domVars

NextGrid == GridResize

SpecGrid == InitGrid /\ [][NextGrid]_vars


\* ------------------------------------------------------------------------
\* The flex layouts of a Container taken by itself (ui/widget/container.rs,
\* render/pre.rs).  Layout fields are numbers as ui/layout.rs declares them;
\* the counts cols, rows and idx enter the arithmetic by their value.
\* ------------------------------------------------------------------------
MaxPasses == 2

\* a child: its layout and the true dimensions of its label, Pt(0, 0) for an
\* empty label
Kid(l, dims) == [layout |-> l, text |-> dims]
NoText == Pt(0, 0)

\* Layout::horizontal_center, Layout::vertical_center
horizontal_center(l, rhs) == FDiv(l.w - rhs, 2)
vertical_center(l, rhs) == FDiv(l.h - rhs, 2)

\* Container::snap_to_parent on a layout
Container_snap_to_parent(parent, l) ==
    [l EXCEPT !.x = @ + parent.x, !.y = @ + parent.y]

\* PreRenderer::adjust_text_layout on a child: a labelled child takes the
\* size of its text on the axes where its own size is 0
Kid_adjust_text_layout(k) ==
    IF k.text = NoText THEN k
    ELSE [k EXCEPT !.layout.w = IF @ = 0 THEN k.text.x ELSE @,
                   !.layout.h = IF @ = 0 THEN k.text.y ELSE @]

\* PreRenderer::adjust_children on the children of the container
Container_adjust_children(C) ==
    [C EXCEPT !.kids = [k \in 1..Len(C.kids) |-> Kid_adjust_text_layout(C.kids[k])]]

\* Container::create_normal_layout
RECURSIVE Container_create_normal_layout(_, _)
Container_create_normal_layout(C, k) ==
    IF Forced(C) /\ k > Len(C.kids) THEN C
    ELSE LET l0 == C.kids[k].layout
             l1 == IF C.halign
                   THEN [l0 EXCEPT !.x = horizontal_center(C.parent, l0.w)] ELSE l0
             l2 == IF C.valign
                   THEN [l1 EXCEPT !.y = vertical_center(C.parent, l1.h)] ELSE l1
         IN Container_create_normal_layout(
              [C EXCEPT !.kids[k].layout = Container_snap_to_parent(C.parent, l2)], k + 1)

\* usize::div_ceil
div_ceil(a, b) == (a + b - 1) \div b

\* the LAYOUT step of create_flex_grid_layout with the gap forgotten
Flex_grid_place_nogap(l, prev, row, col, gap) ==
    [l EXCEPT !.x = (col * prev.w) + @, !.y = row * prev.h + @]

\* the LAYOUT step of create_flex_grid_layout for a child that has a
\* previous sibling
Flex_grid_place(l, prev, row, col, gap) ==
    [l EXCEPT !.x = (col * (prev.w + gap)) + @, !.y = row * (prev.h + gap) + @]

\* the loop of Container::create_flex_grid_layout, from child k on
RECURSIVE Flex_grid_arrange(_, _, _, _, _)
Flex_grid_arrange(C, cols, k, row0, col0) ==
    IF Forced(C) /\ k > Len(C.kids) THEN C
    ELSE LET idx == k - 1
             rows == div_ceil(Len(C.kids), cols)
             gaps_factor_col == C.gap * Max(rows - 1, 0)
             gaps_factor_row == C.gap * (cols - 1)
             width_share == FDiv(C.parent.w, cols) - gaps_factor_row
             height_share == FDiv(C.parent.h, rows) - gaps_factor_col
             row == IF idx # 0 /\ idx % cols = 0 THEN row0 + 1 ELSE row0
             col == IF idx = 0 THEN col0 ELSE IF idx % cols = 0 THEN 0 ELSE col0 + 1
             l0 == C.kids[k].layout
             l1 == [l0 EXCEPT !.w = Min(@, width_share), !.h = Min(@, height_share)]
             l2 == IF C.halign
                   THEN [l1 EXCEPT !.x = horizontal_center(C.parent,
                                                           l1.w * cols + gaps_factor_row)]
                   ELSE l1
             l3 == IF C.valign
                   THEN [l2 EXCEPT !.y = vertical_center(C.parent,
                                                         l2.h * rows + gaps_factor_col)]
                   ELSE l2
             l4 == IF k > 1
                   THEN Flex_grid_place(l3, C.kids[k - 1].layout, row, col, C.gap)
                   ELSE l3
         IN Flex_grid_arrange(
              [C EXCEPT !.kids[k].layout = Container_snap_to_parent(C.parent, l4)],
              cols, k + 1, row, col)

\* a create_flex_grid_layout whose assertion comes after the children were
\* given their share
Container_create_flex_grid_layout_late(C, cols) ==
    IF cols > 0 THEN Flex_grid_arrange(C, cols, 1, 0, 0)
    ELSE [C EXCEPT !.status = "panic",
                   !.kids = [k \in 1..Len(C.kids) |->
                               [C.kids[k] EXCEPT !.layout.w = 0, !.layout.h = 0]]]

\* Container::create_flex_grid_layout
Container_create_flex_grid_layout(C, cols) ==
    IF ~(cols > 0) THEN [C EXCEPT !.status = "panic"]
    ELSE Flex_grid_arrange(C, cols, 1, 0, 0)

\* the loop of Container::create_flex_col_layout, from child k on
RECURSIVE Flex_col_arrange(_, _)
Flex_col_arrange(C, k) ==
    IF Forced(C) /\ k > Len(C.kids) THEN C
    ELSE LET row == k - 1
             rows == Len(C.kids)
             gaps_factor_col == C.gap * Max(rows - 1, 0)
             height_share == FDiv(C.parent.h, rows) - gaps_factor_col
             l0 == C.kids[k].layout
             l1 == [l0 EXCEPT !.h = Min(@, height_share)]
             l2 == IF C.halign
                   THEN [l1 EXCEPT !.x = horizontal_center(C.parent, l1.w)] ELSE l1
             l3 == IF C.valign
                   THEN [l2 EXCEPT !.y = vertical_center(C.parent,
                                                         l2.h * rows + gaps_factor_col)]
                   ELSE l2
             l4 == IF k > 1
                   THEN [l3 EXCEPT !.y = @ + row * (C.kids[k - 1].layout.h + C.gap)]
                   ELSE l3
         IN Flex_col_arrange(
              [C EXCEPT !.kids[k].layout = Container_snap_to_parent(C.parent, l4)], k + 1)

\* Container::create_flex_col_layout
Container_create_flex_col_layout(C) ==
    IF C.kids = <<>> THEN C ELSE Flex_col_arrange(C, 1)

\* PreRenderer::adjust_layout
Container_adjust_layout(C) ==
    IF C.flex.policy = "None" THEN Container_create_normal_layout(C, 1)
    ELSE IF C.flex.policy = "Col" THEN Container_create_flex_col_layout(C)
    ELSE Container_create_flex_grid_layout(C, C.flex.cols)

\* PreRenderer::adjust on a container without scrollbars whose children are
\* leaves: the text pass, then the arrangement
Container_adjust(C) ==
    LET C1 == Container_adjust_children(C)
        C2 == Container_adjust_layout([C1 EXCEPT !.texted = C1.kids])
    IN [C2 EXCEPT !.status = IF @ = "panic" THEN @ ELSE "ok", !.passes = @ + 1]

\* the containers: the 640x320 one at the origin and a 60x60 one away from
\* it; the policies; the gaps; and the children: five of 100x50, a labelled
\* child without a size of its own next to a sized one, and one child larger
\* than the small container
FlexParents == {Rect(0, 0, 640, 320), Rect(10, 20, 60, 60)}
FlexNone == [policy |-> "None", cols |-> 0]
FlexCol == [policy |-> "Col", cols |-> 0]
FlexGrid(cols) == [policy |-> "Grid", cols |-> cols]
FlexPolicies == {FlexNone, FlexCol, FlexGrid(0), FlexGrid(1), FlexGrid(4)}
FlexGaps == {0, 5}
FiveKids == [k \in 1..5 |-> Kid(Rect(0, 0, 100, 50), NoText)]
TwoKids == <<Kid(Rect(0, 0, 20, 10), NoText), Kid(Rect(0, 0, 0, 0), Pt(30, 10))>>
OneKid == <<Kid(Rect(0, 0, 90, 90), NoText)>>
\* three children of which the first is larger than the others
ThreeKids == <<Kid(Rect(0, 0, 30, 30), NoText), Kid(Rect(0, 0, 10, 10), NoText),
               Kid(Rect(0, 0, 10, 10), NoText)>>
FlexKids == {FiveKids, TwoKids, OneKid, ThreeKids}

\* Container::new followed by the builder calls
Container_new(parent, flex, gap, halign, valign, kids) ==
    [kind |-> "flex", parent |-> parent, flex |-> flex, gap |-> gap,
     halign |-> halign, valign |-> valign, kids |-> kids, built |-> kids,
     texted |-> kids, status |-> "new", passes |-> 0]

InitFlex ==
    /\ InitDom
    /\ \E parent \in FlexParents, flex \in FlexPolicies, gap \in FlexGaps,
          halign \in BOOLEAN, valign \in BOOLEAN, kids \in FlexKids :
          lab = Container_new(parent, flex, gap, halign, valign, kids)

\* one redraw: PreRenderer::adjust on the container
FlexAdjust ==
    /\ lab.kind = "flex"
    /\ lab.status # "panic"
    /\ lab.passes < MaxPasses
    /\ lab' = Container_adjust(lab)
    /\ UNCHANGED domVars

NextFlex == FlexAdjust

SpecFlex == InitFlex /\ [][NextFlex]_vars

\* ------------------------------------------------------------------------
\* DOM::add_widget with any outcome of the random generator (ui/dom.rs)
\* ------------------------------------------------------------------------
\* what rand::thread_rng().gen() may return on n draws: each draw gives a
\* value not drawn before, the next of UidDraws, or one of those drawn
\* before; uids are only ever compared for equality
RECURSIVE RngDraws(_)
RngDraws(n) ==
    IF n = 0 THEN {<<>>}
    ELSE UNION {{Append(s, UidDraws[k]) :
                    k \in 1..(Cardinality({s[i] : i \in 1..Len(s)}) + 1)} :
                s \in RngDraws(n - 1)}

\* the widgets the application built with an emitter: at the top level
\* only, or also inside "box"
EmitterSets == {{"btn", "box"}, {"btn", "inner"}, {"box", "kid"}, {}}

InitAdd ==
    /\ InitDom
    /\ \E rng \in RngDraws(Len(UidDraws)), emitters \in EmitterSets :
          lab = [kind |-> "dom", D |-> DomWith(rng, emitters), added |-> 0]

\* the application's next DOM::add_widget call
DomAddWidget ==
    /\ lab.kind = "dom"
    /\ lab.added < Len(TopLevel)
    /\ lab' = [lab EXCEPT !.D = add_widgets(lab.D, TopLevel[lab.added + 1]),
                          !.added = @ + 1]
    /\ UNCHANGED domVars

NextAdd == DomAddWidget

SpecAdd == InitAdd /\ [][NextAdd]_vars

\* ------------------------------------------------------------------------
\* The builder calls of a Canvas that configure its grid (ui/widget/canvas.rs)
\* ------------------------------------------------------------------------
MaxCalls == 3

\* Canvas::new: no grid
NoGrid == [set |-> FALSE, size |-> Pt(0, 0), cells |-> <<>>]

\* Grid::new as the canvas keeps it: size.y rows of size.x cells, cells[y + 1][x + 1]
\* holding the action list of the cell that Grid::on_cell reports at Pt(x, y)
Canvas_grid(size) ==
    [set |-> TRUE, size |-> size,
     cells |-> [r \in 1..size.y |-> [c \in 1..size.x |-> <<>>]]]

\* Canvas::set_grid
Canvas_set_grid(C, size) == [C EXCEPT !.grid = Canvas_grid(Pt(size, size))]

\* Canvas::set_grid_range
Canvas_set_grid_range(C, size) == [C EXCEPT !.grid = Canvas_grid(Pt(size[1], size[2]))]

\* Canvas::set_cell_action: grid.cells[pos.0][pos.1], Vec indexing panics
\* out of range
Canvas_set_cell_action(C, pos, action) ==
    IF ~C.grid.set THEN C
    ELSE IF pos[1] + 1 > Len(C.grid.cells) THEN [C EXCEPT !.status = "panic"]
    ELSE IF pos[2] + 1 > Len(C.grid.cells[pos[1] + 1]) THEN [C EXCEPT !.status = "panic"]
    ELSE [C EXCEPT !.grid.cells[pos[1] + 1][pos[2] + 1] = Append(@, action)]

\* the arguments the application passes
CanvasSizes == {0, 2, 4}
CanvasRanges == {<<0, 2>>, <<2, 0>>, <<4, 2>>}
CellPositions == {<<0, 0>>, <<0, 1>>, <<1, 0>>, <<3, 1>>, <<1, 3>>, <<4, 4>>}
CellActions == {"Hover", "Click"}

InitCanvas ==
    /\ InitDom
    /\ lab = [kind |-> "canvas", grid |-> NoGrid, status |-> "ok",
              last |-> [op |-> "new"], calls |-> 0]

CanvasCall(C, call) ==
    /\ lab.kind = "canvas"
    /\ lab.status = "ok"
    /\ lab.calls < MaxCalls
    /\ lab' = [C EXCEPT !.last = call, !.calls = @ + 1]
    /\ UNCHANGED domVars

CanvasSetGrid ==
    \E size \in CanvasSizes :
        CanvasCall(Canvas_set_grid(lab, size), [op |-> "set_grid", size |-> <<size, size>>])

CanvasSetGridRange ==
    \E size \in CanvasRanges :
        CanvasCall(Canvas_set_grid_range(lab, size), [op |-> "set_grid_range", size |-> size])

CanvasSetCellAction ==
    \E pos \in CellPositions, action \in CellActions :
        CanvasCall(Canvas_set_cell_action(lab, pos, action),
                   [op |-> "set_cell_action", pos |-> pos, action |-> action])

NextCanvas == CanvasSetGrid \/ CanvasSetGridRange \/ CanvasSetCellAction

SpecCanvas == InitCanvas /\ [][NextCanvas]_vars

\* ------------------------------------------------------------------------
\* The pre-render pass on a scrolling container of several sizes and
\* positions (render/pre.rs)
\* ------------------------------------------------------------------------
\* the rectangles the application gives "box" and the sizes it gives "inner"
BarsOrigins == {0, 15}
BarsSizes == {30, 60}
BarsChildSizes == {20, 45, 90}

InitBars ==
    /\ InitDom
    /\ \E x \in BarsOrigins, y \in BarsOrigins, w \in BarsSizes, h \in BarsSizes,
          cw \in BarsChildSizes, ch \in BarsChildSizes :
          lab = [kind |-> "bars",
                 base |-> [[v \in Widgets |-> InitBase(v)]
                             EXCEPT !["box"].layout = Rect(x, y, w, h),
                                    !["inner"].layout = Rect(0, 0, cw, ch)],
                 built |-> [box |-> Rect(x, y, w, h), inner |-> Rect(0, 0, cw, ch)],
                 passes |-> 0]

\* one redraw: PreRenderer::adjust on "box"
BarsAdjust ==
    /\ lab.kind = "bars"
    /\ lab.passes < MaxPasses
    /\ lab' = [lab EXCEPT !.base = adjust(lab.base, "box"), !.passes = @ + 1]
    /\ UNCHANGED domVars

NextBars == BarsAdjust

SpecBars == InitBars /\ [][NextBars]_vars

\* ------------------------------------------------------------------------
\* The order of the steps of one pre-render pass over a widget tree
\* (render/pre.rs): a tree is a parent map over TreeNodes; the steps are
\* <<"text", w>> for adjust_text_layout(w), <<"layout", w>> for
\* adjust_layout(w), <<"scroll", w>> for adjust_scrolling(w) and
\* <<"resize", w>> for Grid::resize on the canvas w
\* ------------------------------------------------------------------------
TreeNodes == <<"a", "b", "c", "d">>
TreeRoot == "a"

\* Container.children in insertion order
Tree_children(T, w) == SelectSeq(TreeNodes, LAMBDA n : n # TreeRoot /\ T.parent[n] = w)

\* PreRenderer::adjust_children: the widget's own text pass, then its children's
RECURSIVE adjust_children_steps_from(_, _, _, _)
RECURSIVE adjust_children_steps(_, _)
adjust_children_steps(T, w) ==
    IF T.kind[w] = "Container"
    THEN adjust_children_steps_from(T, <<<<"text", w>>>>, Tree_children(T, w), 1)
    ELSE <<<<"text", w>>>>
adjust_children_steps_from(T, acc, kids, k) ==
    IF Forced(acc) /\ k > Len(kids) THEN acc
    ELSE adjust_children_steps_from(T, acc \o adjust_children_steps(T, kids[k]), kids, k + 1)

\* the body of PreRenderer::adjust on a container, with the arrangement
\* ahead of the text pass
adjust_sequence_eager(texts, own, nested) == own \o texts \o nested

\* the body of PreRenderer::adjust on a container: adjust_children, then
\* adjust_layout and adjust_scrolling, then adjust on every child
adjust_sequence(texts, own, nested) == texts \o own \o nested

\* PreRenderer::adjust
RECURSIVE adjust_steps_from(_, _, _, _)
RECURSIVE adjust_steps(_, _)
adjust_steps(T, w) ==
    IF T.kind[w] = "Container"
    THEN adjust_sequence(adjust_children_steps(T, w),
                         << <<"layout", w>>, <<"scroll", w>> >>,
                         adjust_steps_from(T, <<>>, Tree_children(T, w), 1))
    ELSE IF T.kind[w] = "Canvas"
         THEN adjust_children_steps(T, w) \o << <<"resize", w>> >>
         ELSE adjust_children_steps(T, w)
adjust_steps_from(T, acc, kids, k) ==
    IF Forced(acc) /\ k > Len(kids) THEN acc
    ELSE adjust_steps_from(T, acc \o adjust_steps(T, kids[k]), kids, k + 1)

\* the trees the application can build from four widgets: every widget but
\* the root is the child of an earlier one, and only containers have children
TreeParents ==
    {p \in [{"b", "c", "d"} -> {"a", "b", "c"}] :
        p["b"] = "a" /\ p["c"] \in {"a", "b"}}
TreeKinds(p) ==
    {k \in [{"a", "b", "c", "d"} -> {"Container", "Canvas", "Widget"}] :
        \A n \in {"b", "c", "d"} : k[p[n]] = "Container"}

InitOrder ==
    /\ InitDom
    /\ \E p \in TreeParents : \E k \in TreeKinds(p) :
          lab = [kind |-> "order", tree |-> [parent |-> p, kind |-> k],
                 steps |-> <<>>, passes |-> 0]

\* one layout resolution: PreRenderer::adjust on the root
OrderAdjust ==
    /\ lab.kind = "order"
    /\ lab.passes < MaxPasses
    /\ lab' = [lab EXCEPT !.steps = adjust_steps(lab.tree, TreeRoot), !.passes = @ + 1]
    /\ UNCHANGED domVars

NextOrder == OrderAdjust

SpecOrder == InitOrder /\ [][NextOrder]_vars

\* ------------------------------------------------------------------------
\* The Zoom action (action/zoom.rs) on one widget in one window
\* ------------------------------------------------------------------------
\* impl From<ZoomLevel> for f64
ZoomLevels == {2, 4, 8, 16}

None == [some |-> FALSE]
Some(v) == [some |-> TRUE, v |-> v]

\* Zoom::new
Zoom_new(scale) == [scale |-> scale, steps |-> None, lower_upper |-> None]

\* Zoom::new_with_bounds
Zoom_new_with_bounds(scale, steps) ==
    [scale |-> scale, steps |-> Some(steps), lower_upper |-> None]

f64_abs(v) == IF v < 0 THEN 0 - v ELSE v

\* f64::clamp, which asserts min <= max
f64_clamp_panics(min, max) == min > max
f64_clamp(v, min, max) == IF v < min THEN min ELSE IF v > max THEN max ELSE v

\* Zoom::apply, the bounds created on the first use
Zoom_lower_upper(zoom, layout, inner_size) ==
    IF zoom.lower_upper.some \/ ~zoom.steps.some THEN zoom.lower_upper
    \* scale as u32 * steps, far below the width of a u32 for the steps tried
    ELSE LET steps == zoom.scale * zoom.steps.v
         IN Some([min_h |-> f64_abs(layout.h - steps),
                  max_h |-> Min(layout.h + steps, inner_size.height),
                  min_w |-> f64_abs(layout.w - steps),
                  max_w |-> Min(layout.w + steps, inner_size.width)])

\* Zoom::apply on Z = [zoom, layout, inner_size, redraws, status]; the event is
\* a MouseWheel with a LineDelta(_, y) or a PixelDelta, or any other event
Zoom_apply(Z, event) ==
    IF event.type # "MouseWheel" THEN Z
    ELSE IF event.delta # "LineDelta" THEN [Z EXCEPT !.status = "panic"]
    ELSE LET scaled_w == Z.layout.w + event.y * Z.zoom.scale
             scaled_h == Z.layout.h + event.y * Z.zoom.scale
             lu == Zoom_lower_upper(Z.zoom, Z.layout, Z.inner_size)
             Z1 == [Z EXCEPT !.zoom.lower_upper = lu]
         IN IF lu.some
            THEN IF f64_clamp_panics(lu.v.min_h, lu.v.max_h)
                    \/ f64_clamp_panics(lu.v.min_w, lu.v.max_w)
                 THEN [Z1 EXCEPT !.status = "panic"]
                 ELSE [Z1 EXCEPT !.layout.w = f64_clamp(scaled_w, lu.v.min_w, lu.v.max_w),
                                 !.layout.h = f64_clamp(scaled_h, lu.v.min_h, lu.v.max_h),
                                 !.redraws = @ + 1]
            ELSE [Z1 EXCEPT !.layout.w = scaled_w, !.layout.h = scaled_h,
                            !.redraws = @ + 1]

ZoomSteps == {1, 2}
ZoomLayouts == {Rect(0, 0, 10, 10), Rect(0, 0, 40, 20), Rect(0, 0, 100, 100)}
WindowSizes == {[width |-> 640, height |-> 480], [width |-> 50, height |-> 50]}
WheelLines == {0 - 1, 1, 3}

InitZoom ==
    /\ InitDom
    /\ \E scale \in ZoomLevels, l \in ZoomLayouts, size \in WindowSizes :
       \E zoom \in {Zoom_new(scale)} \cup {Zoom_new_with_bounds(scale, n) : n \in ZoomSteps} :
          lab = [kind |-> "zoom", zoom |-> zoom, layout |-> l, inner_size |-> size,
                 redraws |-> 0, status |-> "ok", calls |-> 0,
                 last |-> [type |-> "none"]]

ZoomCall(event) ==
    /\ lab.kind = "zoom"
    /\ lab.status = "ok"
    /\ lab.calls < MaxCalls
    /\ \E Z \in {Zoom_apply(lab, event)} :
          lab' = [Z EXCEPT !.calls = @ + 1, !.last = event]
    /\ UNCHANGED domVars

\* a mouse wheel turned by whole lines
ZoomLineDelta ==
    \E y \in WheelLines : ZoomCall([type |-> "MouseWheel", delta |-> "LineDelta", y |-> y])

\* a touchpad scroll, which winit reports in pixels
ZoomPixelDelta == ZoomCall([type |-> "MouseWheel", delta |-> "PixelDelta"])

\* any event but a mouse wheel
ZoomOtherEvent == ZoomCall([type |-> "CursorMoved"])

\* the user resizes the window between two events
ZoomWindowResized ==
    /\ lab.kind = "zoom"
    /\ lab.status = "ok"
    /\ \E size \in WindowSizes :
          /\ size # lab.inner_size
          /\ lab' = [lab EXCEPT !.inner_size = size, !.last = [type |-> "Resized"]]
    /\ UNCHANGED domVars

NextZoom == ZoomLineDelta \/ ZoomPixelDelta \/ ZoomOtherEvent \/ ZoomWindowResized

SpecZoom == InitZoom /\ [][NextZoom]_vars

\* ------------------------------------------------------------------------
\* A container with scrollbars and any number of children, none included
\* (render/pre.rs, action/scroll.rs): C = [layout, kids, x, y, scroll, status]
\* with kids the children's layouts and x, y the layouts of the two thumbs
\* ------------------------------------------------------------------------
\* .fold(container_width, |acc, child| child.base().layout.w.max(acc))
RECURSIVE Bare_fold_max_w(_, _, _)
Bare_fold_max_w(kids, i, acc) ==
    IF i > Len(kids) THEN acc
    ELSE Bare_fold_max_w(kids, i + 1, Max(kids[i].w, acc))

\* &widget.children[widget.children.len() - 1]: with no child the
\* subtraction overflows or the index is out of range, a panic in both builds
last_child_panics(kids) == Len(kids) = 0

\* PreRenderer::adjust_scrolling
Bare_adjust_scrolling(C) ==
    LET l == C.layout
        container_width == l.w + l.x
        overflow_x == Bare_fold_max_w(C.kids, 1, container_width)
        x1 == [C.x EXCEPT !.y = (l.h + l.y) - C.x.h,
                          !.x = IF @ = 0 THEN l.x ELSE @,
                          !.w = IF container_width < overflow_x
                                THEN FDiv(container_width * l.w, overflow_x) ELSE @]
        y1 == [C.y EXCEPT !.x = (l.w + l.x) - C.y.w,
                          !.y = IF @ = 0 THEN l.y ELSE @]
        container_height == l.h + l.y
    IN IF last_child_panics(C.kids)
       THEN [C EXCEPT !.x = x1, !.y = y1, !.status = "panic"]
       ELSE LET last_child == C.kids[Len(C.kids)]
                overflow_y == last_child.y + last_child.h
            IN [C EXCEPT !.x = x1,
                         !.y = [y1 EXCEPT !.h = IF container_height < overflow_y
                                                THEN FDiv(container_height * l.h, overflow_y)
                                                ELSE @]]

\* Scroll::compute_scroll with self.axis = Some(axis)
Bare_compute_scroll(C, axis) ==
    LET l == C.layout
    IN IF axis = "X"
       THEN LET container_width == l.w + l.x
                overflow_x == Bare_fold_max_w(C.kids, 1, container_width)
                total_overflow == overflow_x - container_width
                true_scroll_range == container_width - C.x.w
                delta == FDiv(total_overflow, true_scroll_range - l.x - SCROLLBAR_BUFFER)
            IN [C EXCEPT !.scroll = [axis |-> axis, max_scroll_range |-> true_scroll_range,
                                     scroll_delta |-> delta]]
       ELSE IF last_child_panics(C.kids)
            THEN [C EXCEPT !.scroll.axis = axis, !.status = "panic"]
            ELSE LET last_child == C.kids[Len(C.kids)]
                     overflow_y == last_child.y + last_child.h
                     container_height == l.h + l.y
                     total_overflow == overflow_y - container_height
                     true_scroll_range == container_height - C.y.h
                     delta == FDiv(total_overflow, true_scroll_range - l.y - SCROLLBAR_BUFFER)
                 IN [C EXCEPT !.scroll = [axis |-> axis,
                                          max_scroll_range |-> true_scroll_range,
                                          scroll_delta |-> delta]]

BareKids == {<<>>, <<Rect(0, 0, 90, 90)>>, <<Rect(0, 0, 20, 20)>>,
             <<Rect(0, 0, 45, 45), Rect(0, 0, 90, 90)>>}

InitBare ==
    /\ InitDom
    /\ \E x \in BarsOrigins, y \in BarsOrigins, w \in BarsSizes, h \in BarsSizes,
          kids \in BareKids :
          lab = [kind |-> "bare", layout |-> Rect(x, y, w, h), kids |-> kids,
                 x |-> ScrollBar_new_x.layout, y |-> ScrollBar_new_y.layout,
                 scroll |-> [axis |-> "None", max_scroll_range |-> 0, scroll_delta |-> 0],
                 status |-> "ok", last |-> "new", passes |-> 0]

\* one redraw: the scrollbar geometry pass of PreRenderer::adjust
BareAdjust ==
    /\ lab.kind = "bare"
    /\ lab.status = "ok"
    /\ lab.passes < MaxPasses
    /\ \E C \in {Bare_adjust_scrolling(lab)} :
          lab' = [C EXCEPT !.passes = @ + 1, !.last = "adjust_scrolling"]
    /\ UNCHANGED domVars

\* a press on a thumb: Scroll::on_pressed selects the axis, then compute_scroll
BareComputeScroll ==
    /\ lab.kind = "bare"
    /\ lab.status = "ok"
    /\ lab.scroll.axis = "None"
    /\ \E axis \in {"X", "Y"} :
       \E C \in {Bare_compute_scroll(lab, axis)} :
          lab' = [C EXCEPT !.last = "compute_scroll"]
    /\ UNCHANGED domVars

NextBare == BareAdjust \/ BareComputeScroll

SpecBare == InitBare /\ [][NextBare]_vars

\* ------------------------------------------------------------------------
\* Properties
\* ------------------------------------------------------------------------
\* the rectangle l contains the point p, edges included
InsideRect(l, p) ==
    /\ l.x <= p.x /\ p.x <= l.x + l.w
    /\ l.y <= p.y /\ p.y <= l.y + l.h

\* the emitter threads whose run calls Trigger::update_callback
CallbackThreads == {t \in Threads : nodes_ref[threads[t]] # "btn"}

\* callbacks of thread t sent and not yet handled
Pending(t) ==
    Cardinality({k \in 1..Len(channel) :
                    channel[k].kind = "Callback" /\ channel[k].uid = threads[t]})

IsCallbackEvent(ev) == ev.type = "UserEvent" /\ ev.signal.kind = "Callback"

\* the widgets Renderer::draw paints for w: w, its descendants, its cells and
\* its scrollbars
RECURSIVE SubtreeOf(_)
SubtreeOf(w) ==
    {w} \cup {scrollbar(w)[k] : k \in DOMAIN scrollbar(w)}
        \cup {on_cell(w)[k].cell : k \in DOMAIN on_cell(w)}
        \cup UNION {SubtreeOf(children(w)[k]) : k \in DOMAIN children(w)}

\* C1: N calls of trigger.update_callback(f) make the event loop apply f
\* exactly N times (every call is either still queued or was applied once),
\* each application is a step of the UI thread, sets what f sets, and is
\* followed by dirty_clear of the widget's rectangle, a draw of that widget
\* only, and present.
C1_CallbackAppliedExactlyOnce ==
    [][ /\ running' => \A t \in CallbackThreads : applied'[t] + Pending(t)' = sent'[t]
        /\ applied' # applied =>
             /\ actor' = UiThread
             /\ IsCallbackEvent(lastEvent')
             /\ LET sig == lastEvent'.signal
                    w == nodes_ref[sig.uid]
                    l == base'[w].layout
                    n == Len(frame')
                IN /\ \A t \in Threads :
                        applied'[t] = applied[t] + (IF threads[t] = sig.uid THEN 1 ELSE 0)
                   /\ base'[w].color = (IF sig.f = "setRed" THEN RED ELSE BLUE)
                   /\ \A v \in Widgets \ {w} : base'[v] = base[v]
                   /\ n >= 3
                   /\ frame'[1] = <<"dirty_clear", l.x, l.y, l.h, l.w>>
                   /\ frame'[n] = <<"present">>
                   /\ \A k \in 2..(n - 1) :
                        frame'[k][1] = "paint" /\ frame'[k][2] \in SubtreeOf(w)
                   /\ \E k \in 2..(n - 1) : frame'[k] = <<"paint", w>>
      ]_vars

\* an emitter made at least two calls and the loop has applied them all, the
\* last one in the step just taken
C1_Witness ==
    \E t \in CallbackThreads :
        /\ sent[t] >= 2
        /\ applied[t] = sent[t]
        /\ actor = UiThread
        /\ IsCallbackEvent(lastEvent)

\* C2: the signals of one emitter are handled in the order they were sent:
\* the emitter sends setRed, setBlue, setRed, ..., and at every moment the
\* widget shows the colour of the latest of its callbacks that was applied
\* (RED after the 1st, BLUE after the 2nd, ...), never an older one.
C2_SignalsInSendOrder ==
    \A t \in CallbackThreads :
        applied[t] > 0 =>
            base[nodes_ref[threads[t]]].color = (IF applied[t] % 2 = 1 THEN RED ELSE BLUE)

\* RED then BLUE were sent and both were handled: the widget is BLUE
C2_Witness ==
    \E t \in CallbackThreads :
        /\ sent[t] >= 2
        /\ applied[t] = 2
        /\ base[nodes_ref[threads[t]]].color = BLUE

\* C3: a step of an emitter thread leaves every widget and every action
\* untouched; all it does to shared state is append one Signal (Update or
\* Callback) to the channel, or nothing.
C3_OnlyUiThreadWrites ==
    [][ actor' # UiThread =>
          /\ base' = base
          /\ actions' = actions
          /\ cursor_position' = cursor_position
          /\ \/ channel' = channel
             \/ /\ Len(channel') = Len(channel) + 1
                /\ SubSeq(channel', 1, Len(channel)) = channel
                /\ channel'[Len(channel')].kind \in {"Update", "Callback"}
      ]_vars

\* both emitters have sent, the last step was an emitter's, and one signal of
\* each kind is waiting
C3_Witness ==
    /\ actor # UiThread
    /\ \A t \in Threads : sent[t] > 0
    /\ \E k \in DOMAIN channel : channel[k].kind = "Update"
    /\ \E k \in DOMAIN channel : channel[k].kind = "Callback"

\* every action of the tree once, in tree order: a widget's actions, then its
\* children (or its grid cells) in order
RECURSIVE TreeOrderOf(_, _)
RECURSIVE TreeOrder(_)
TreeOrder(w) ==
    [i \in 1..Len(InitActions(w)) |-> <<w, i>>]
        \o (IF Kind(w) = "Canvas"
            THEN TreeOrderOf([k \in DOMAIN on_cell(w) |-> on_cell(w)[k].cell], 1)
            ELSE TreeOrderOf(children(w), 1))
TreeOrderOf(list, k) ==
    IF k > Len(list) THEN <<>> ELSE TreeOrder(list[k]) \o TreeOrderOf(list, k + 1)

\* C4: for every event the loop handles, each action of each widget of the
\* tree (top-level widgets, descendants of containers, grid cells) is applied
\* exactly once, in tree order.
C4_EachActionOncePerEvent ==
    lastEvent.type # "none" => delivered = TreeOrderOf(TopLevel, 1)

\* C5: Hover is edge-triggered.  On every cursor-moved event the Hover's state
\* becomes "cursor within the layout, edges included"; when that leaves the
\* state as it was, no field of the widget or of the action changes and the
\* widget requests no redraw; when it changes the state, the colour is swapped
\* and a redraw is requested.
C5_HoverEdgeTriggered ==
    [][ lastEvent'.type = "CursorMoved" =>
          \A w \in HoverWidgets :
             LET i == HoverIdx(w)
                 h0 == actions[w][i].hovered
                 h1 == actions'[w][i].hovered
                 asked == \E k \in DOMAIN requests' :
                             requests'[k].w = w /\ requests'[k].kind = "redraw"
             IN /\ h1 = InsideRect(base[w].layout, lastEvent'.pos)
                /\ h0 = h1 => /\ base'[w] = base[w]
                              /\ actions'[w][i] = actions[w][i]
                              /\ ~asked
                /\ h0 # h1 => /\ asked
                              /\ base'[w].color # base[w].color \/ ~h1
                              /\ h1 => base'[w].color = actions[w][i].hover_color
      ]_vars

\* the cursor moved along the edge of a hovered widget and nothing was
\* requested: the widget stays hovered, with its hover colour
C5_Witness ==
    /\ lastEvent = CursorMoved(OnBtnEdge)
    /\ actions["btn"][HoverIdx("btn")].hovered
    /\ base["btn"].color = RED
    /\ requests = <<>>

RegisteredFor(w, button, state) ==
    CASE w = "btn" /\ button = "Left" /\ state = "Pressed"   -> "onLeft"
      [] w = "btn" /\ button = "Right" /\ state = "Released" -> "onRightUp"
      [] w = "kid" /\ button = "Left" /\ state = "Pressed"   -> "onLeft"
      [] OTHER -> "none"

InvokedOn(log, w) == {k \in DOMAIN log : log[k].w = w}

\* C7: a mouse-button event for (button, state) that reaches a hovered widget
\* runs the callback registered for exactly that pair and no other; when none
\* is registered for it, no callback runs and neither the widget nor the
\* Click's user state changes.
C7_ClickDispatchExact ==
    [][ lastEvent'.type = "MouseInput" =>
          \A w \in ClickWidgets :
             LET reg == RegisteredFor(w, lastEvent'.button, lastEvent'.state)
             IN /\ \A k \in InvokedOn(invoked', w) : invoked'[k].handler = reg
                /\ reg = "none" => /\ InvokedOn(invoked', w) = {}
                                   /\ base'[w] = base[w]
                                   /\ actions'[w] = actions[w]
                /\ (reg # "none" /\ base[w].hovered) =>
                       /\ InvokedOn(invoked', w) # {}
                       /\ actions'[w][ClickIdx(w)].state = reg
      ]_vars

\* the right button was released over "btn" and its release callback ran
C7_Witness ==
    /\ lastEvent = MouseInput("Right", "Released")
    /\ InvokedOn(invoked, "btn") # {}
    /\ actions["btn"][ClickIdx("btn")].state = "onRightUp"

\* no position the window system reports is the origin, so cursor_position
\* differs from its initial value exactly when a CursorMoved was handled
SeenCursorMoved == cursor_position # Pt(0, 0)

\* C8: a Click callback runs only on a mouse-button event that arrives while
\* the position of the most recent cursor-moved event is within the widget's
\* layout; a button event arriving otherwise (also before any cursor-moved
\* event) runs no callback of the widget and changes nothing of it.
C8_ClickOnlyWhenHovered ==
    [][ lastEvent'.type = "MouseInput" =>
          \A w \in ClickWidgets :
             LET under == SeenCursorMoved /\ InsideRect(base[w].layout, cursor_position)
             IN /\ InvokedOn(invoked', w) # {} => under
                /\ ~under => /\ InvokedOn(invoked', w) = {}
                             /\ base'[w] = base[w]
                             /\ actions'[w] = actions[w]
      ]_vars

\* the left button went down with the cursor inside "kid" and outside "btn":
\* the callback of "kid" ran, the one of "btn" did not
C8_Witness ==
    /\ lastEvent = MouseInput("Left", "Pressed")
    /\ cursor_position = InKid
    /\ InvokedOn(invoked, "kid") # {}
    /\ InvokedOn(invoked, "btn") = {}

ScrollAxis(A) == A["box"][1].axis
LeftPressed == MouseInput("Left", "Pressed")
LeftReleased == MouseInput("Left", "Released")

\* C9: a left button-down selects the x (y) axis only if the cursor is at
\* that moment within the x (y) thumb; with the cursor outside both thumbs
\* the Scroll stays Unselected, whatever cursor moves came before.
C9_AxisOnlyByThumbHit ==
    [][ (lastEvent' = LeftPressed /\ ScrollAxis(actions) = "None") =>
          /\ ScrollAxis(actions') = "X" => InsideRect(base["sbx"].layout, cursor_position)
          /\ ScrollAxis(actions') = "Y" => InsideRect(base["sby"].layout, cursor_position)
      ]_vars

\* C10: a left button-up returns the Scroll to Unselected; while Unselected a
\* cursor-moved event moves no thumb, changes no child's offset and requests
\* no redraw; and the Scroll leaves Unselected only by a left button-down
\* with the cursor on a thumb.
C10_DragOnlyAfterPressOnThumb ==
    [][ /\ lastEvent' = LeftReleased => ScrollAxis(actions') = "None"
        /\ (lastEvent'.type = "CursorMoved" /\ ScrollAxis(actions) = "None") =>
              /\ ScrollAxis(actions') = "None"
              /\ base'["sbx"].layout = base["sbx"].layout
              /\ base'["sby"].layout = base["sby"].layout
              /\ \A c \in {"inner", "kid"} : base'[c].offset = base[c].offset
              /\ requests' = <<>>
              /\ channel' = channel
        /\ (ScrollAxis(actions) = "None" /\ ScrollAxis(actions') # "None") =>
              /\ lastEvent' = LeftPressed
              /\ \/ InsideRect(base["sbx"].layout, cursor_position)
                 \/ InsideRect(base["sby"].layout, cursor_position)
      ]_vars

\* the track of the thumb on each axis: from the container's origin to its
\* far edge minus the thumb's length
ThumbInTrackX(B) ==
    /\ B["sbx"].layout.x >= B["box"].layout.x
    /\ B["sbx"].layout.x <= B["box"].layout.x + B["box"].layout.w - B["sbx"].layout.w
ThumbInTrackY(B) ==
    /\ B["sby"].layout.y >= B["box"].layout.y
    /\ B["sby"].layout.y <= B["box"].layout.y + B["box"].layout.h - B["sby"].layout.h

OverflowX(B) ==
    fold_max_w(B, children("box"), 1, B["box"].layout.w + B["box"].layout.x)
      - (B["box"].layout.w + B["box"].layout.x)
OverflowY(B) ==
    LET last == B[children("box")[Len(children("box"))]]
    IN (last.layout.y + last.layout.h) - (B["box"].layout.h + B["box"].layout.y)
Abs(n) == IF n < 0 THEN 0 - n ELSE n

\* C12: the magnitude of any child's offset never exceeds the overflow of the
\* children over the container (total child extent minus container extent),
\* the thumb dragged to the end of its track included.
C12_OffsetWithinOverflow ==
    \A c \in {children("box")[k] : k \in 1..Len(children("box"))} :
        /\ Abs(base[c].offset.x) <= OverflowX(base)
        /\ Abs(base[c].offset.y) <= OverflowY(base)

BoxChildren == {children("box")[k] : k \in 1..Len(children("box"))}

\* C13: a drag step sets the offset of every child, on the dragged axis, to
\* minus the thumb's displacement from the container's origin times the
\* scroll delta, and leaves the child's offset on the other axis and the
\* child's layout as they were; no step at all changes a child's layout.
C13_DragShiftsOffsetOnly ==
    [][ /\ \A c \in BoxChildren : base'[c].layout = base[c].layout
        /\ (lastEvent'.type = "CursorMoved" /\ ScrollAxis(actions) = "X") =>
              \A c \in BoxChildren :
                 /\ base'[c].offset.x =
                      0 - ((base'["sbx"].layout.x - base'["box"].layout.x)
                             * actions["box"][1].scroll_delta)
                 /\ base'[c].offset.y = base[c].offset.y
        /\ (lastEvent'.type = "CursorMoved" /\ ScrollAxis(actions) = "Y") =>
              \A c \in BoxChildren :
                 /\ base'[c].offset.y =
                      0 - ((base'["sby"].layout.y - base'["box"].layout.y)
                             * actions["box"][1].scroll_delta)
                 /\ base'[c].offset.x = base[c].offset.x
      ]_vars

\* a drag on the y axis after one on the x axis: both offsets are set, the
\* child is where it was laid out
C13_Witness ==
    /\ lastEvent.type = "CursorMoved"
    /\ ScrollAxis(actions) = "Y"
    /\ base["sby"].layout.y > base["box"].layout.y
    /\ base["inner"].offset.y < 0
    /\ base["inner"].offset.x < 0
    /\ base["inner"].layout = InitBase("inner").layout

\* ------------------------------------------------------------------------
\* Grid tiling
\* ------------------------------------------------------------------------
RECURSIVE SumOver(_, _, _)
SumOver(f, lo, hi) == IF lo > hi THEN 0 ELSE f[lo] + SumOver(f, lo + 1, hi)

GridRows == 1..lab.size.y
GridCols == 1..lab.size.x

\* the widths of every row add up, with the gutters, to the width given to
\* resize, and the heights of every column to the height
RowsFillWidth ==
    \A r \in GridRows :
        Abs(SumOver([c \in GridCols |-> lab.cells[r][c].w], 1, lab.size.x)
              + (lab.size.x - 1) * lab.thickness - lab.width) <= 1
ColsFillHeight ==
    \A c \in GridCols :
        Abs(SumOver([r \in GridRows |-> lab.cells[r][c].h], 1, lab.size.y)
              + (lab.size.y - 1) * lab.thickness - lab.height) <= 1

\* two rectangles share a point
Overlap(a, b) ==
    /\ a.w > 0 /\ a.h > 0 /\ b.w > 0 /\ b.h > 0
    /\ a.x < b.x + b.w /\ b.x < a.x + a.w
    /\ a.y < b.y + b.h /\ b.y < a.y + a.h
CellsDisjoint ==
    \A r1, r2 \in GridRows, c1, c2 \in GridCols :
        <<r1, c1>> # <<r2, c2>> => ~Overlap(lab.cells[r1][c1], lab.cells[r2][c2])

\* neighbours in a row or a column are one gutter apart
GuttersExact ==
    /\ \A r \in GridRows, c \in GridCols :
          c < lab.size.x =>
            lab.cells[r][c + 1].x - (lab.cells[r][c].x + lab.cells[r][c].w) = lab.thickness
    /\ \A r \in GridRows, c \in GridCols :
          r < lab.size.y =>
            lab.cells[r + 1][c].y - (lab.cells[r][c].y + lab.cells[r][c].h) = lab.thickness

GridTiles == RowsFillWidth /\ ColsFillHeight /\ CellsDisjoint /\ GuttersExact

\* C14 as stated: for all rows, cols >= 1, thickness, width and height, after
\* Grid::resize the widths of a row plus (cols-1)*thickness make the parent
\* width, the heights of a column plus (rows-1)*thickness the parent height,
\* cells do not overlap and neighbours are exactly one thickness apart.
C14_GridTiling_AnySize ==
    (lab.kind = "grid" /\ lab.resized) => GridTiles

\* C14, amended: the same for every width > 0 and height > 0.
C14_GridTiling ==
    (lab.kind = "grid" /\ lab.resized /\ lab.width > 0 /\ lab.height > 0) => GridTiles

\* a grid of several rows and columns with gutters, away from the origin
C14_Witness ==
    /\ lab.kind = "grid" /\ lab.resized
    /\ lab.size = Pt(4, 2) /\ lab.thickness = 3
    /\ lab.width = 32 /\ lab.height = 16 /\ lab.x = 3 /\ lab.y = 3
    /\ lab.cells[2][4] = Rect(30, 14, 5, 5)

\* the cell at column col, row row (both from 0) as the placement rule has it
CellByIndex(col, row) ==
    LET cw == FDiv(lab.width, lab.size.x)
        ch == FDiv(lab.height, lab.size.y)
    IN Rect(IF col = 0 THEN lab.x ELSE lab.x + col * cw + lab.thickness,
            IF row = 0 THEN lab.y ELSE lab.y + row * ch + lab.thickness,
            IF col = 0 THEN cw ELSE cw - lab.thickness,
            IF row = 0 THEN ch ELSE ch - lab.thickness)
CellsByIndex ==
    \A r \in GridRows, c \in GridCols : lab.cells[r][c] = CellByIndex(c - 1, r - 1)

\* the 4x4 grid of thickness 1 resized to (0, 0, height 16, width 32)
IsExampleGrid ==
    /\ lab.size = Pt(4, 4) /\ lab.thickness = 1
    /\ lab.x = 0 /\ lab.y = 0 /\ lab.height = 16 /\ lab.width = 32
ExampleCells ==
    \A r \in 1..4, c \in 1..4 :
        lab.cells[r][c] = Rect(<<0, 9, 17, 25>>[c], <<0, 5, 9, 13>>[r],
                               <<8, 7, 7, 7>>[c], <<4, 3, 3, 3>>[r])

\* C15 as stated: Grid::resize puts column 0 at x with width cw = width/size.x
\* and column c > 0 at x + c*cw + thickness with width cw - thickness, rows
\* likewise with ch = height/size.y; the 4x4 grid of thickness 1 resized to
\* (0, 0, 16, 32) has x = 0, 9, 17, 25, w = 8, 7, 7, 7, y = 0, 5, 9, 13 and
\* h = 4, 3, 3, 3.
C15_CellPlacement_AnySize ==
    (lab.kind = "grid" /\ lab.resized) =>
        /\ CellsByIndex
        /\ IsExampleGrid => ExampleCells

\* C15, amended: the same placement for every width > 0 and height > 0, and
\* the same example.
C15_CellPlacement ==
    (lab.kind = "grid" /\ lab.resized /\ lab.width > 0 /\ lab.height > 0) =>
        /\ CellsByIndex
        /\ IsExampleGrid => ExampleCells

\* the example grid, resized
C15_Witness ==
    /\ lab.kind = "grid" /\ lab.resized
    /\ IsExampleGrid
    /\ lab.cells[2][1] = Rect(0, 5, 8, 3)
    /\ lab.cells[4][4] = Rect(25, 13, 7, 3)

\* ------------------------------------------------------------------------
\* Flex layouts
\* ------------------------------------------------------------------------
\* the container of 640x320 at the origin with Grid(4), gap 5, no alignment
\* and five children of 100x50, after its first layout resolution
IsGridScenario ==
    /\ lab.kind = "flex"
    /\ lab.parent = Rect(0, 0, 640, 320)
    /\ lab.flex = FlexGrid(4)
    /\ lab.gap = 5
    /\ ~lab.halign /\ ~lab.valign
    /\ lab.built = FiveKids
    /\ lab.passes = 1

\* C16: in that scenario children 0..3 are in row 0 at x = 0, 105, 210, 315
\* and y = 0, child 4 starts row 1 at x = 0 and y = 55, and no child's width
\* or height was reduced by the share clamp.
C16_FlexGridScenario ==
    IsGridScenario =>
        /\ lab.status = "ok"
        /\ \A k \in 1..5 :
              /\ lab.kids[k].layout.x = <<0, 105, 210, 315, 0>>[k]
              /\ lab.kids[k].layout.y = <<0, 0, 0, 0, 55>>[k]
              /\ lab.kids[k].layout.w = lab.built[k].layout.w
              /\ lab.kids[k].layout.h = lab.built[k].layout.h

C16_Witness ==
    /\ IsGridScenario
    /\ lab.kids[4].layout = Rect(315, 0, 100, 50)
    /\ lab.kids[5].layout = Rect(0, 55, 100, 50)

IsGridZero == lab.kind = "flex" /\ lab.flex = FlexGrid(0) /\ lab.passes > 0

\* C17 as stated: resolving the layout of a container whose policy is
\* Grid(0) fails fatally, and no child's layout was modified when it does.
C17_GridZeroFailsUntouched ==
    IsGridZero =>
        /\ lab.status = "panic"
        /\ \A k \in 1..Len(lab.kids) : lab.kids[k].layout = lab.built[k].layout

\* C17, amended: resolving the layout of a container whose policy is Grid(0)
\* fails fatally before the arrangement modifies any child's layout: every
\* child is as the text pass, which runs first, left it.
C17_GridZeroFailsBeforeArranging ==
    IsGridZero =>
        /\ lab.status = "panic"
        /\ \A k \in 1..Len(lab.kids) :
              lab.kids[k].layout = Kid_adjust_text_layout(lab.built[k]).layout

\* a Grid(0) container away from the origin whose children would have been
\* moved and clamped by an arrangement
C17_Witness ==
    /\ IsGridZero
    /\ lab.status = "panic"
    /\ lab.parent = Rect(10, 20, 60, 60)
    /\ lab.built = OneKid
    /\ lab.kids = OneKid

\* rectangle l lies inside rectangle p
Inside(l, p) ==
    /\ l.x >= p.x /\ l.y >= p.y
    /\ l.x + l.w <= p.x + p.w /\ l.y + l.h <= p.y + p.h

\* C20: after the layout resolution of a container under any policy (None,
\* Col, Grid) every child's layout rectangle lies inside the container's.
C20_ChildrenInsideContainer ==
    (lab.kind = "flex" /\ lab.passes = 1 /\ lab.status = "ok") =>
        \A k \in 1..Len(lab.kids) : Inside(lab.kids[k].layout, lab.parent)

\* ------------------------------------------------------------------------
\* Routing table and emitters
\* ------------------------------------------------------------------------
\* the widgets inserted so far
Inserted == DOMAIN lab.D.trigger

\* C18: after any sequence of add_widget calls every inserted widget (top
\* level, descendant of a container, grid cell) has a trigger whose uid
\* differs from that of every other inserted widget, and the routing table
\* maps each uid to the widget that owns it.
C18_UidsUnique ==
    lab.kind = "dom" =>
        /\ \A w1, w2 \in Inserted : w1 # w2 => lab.D.trigger[w1] # lab.D.trigger[w2]
        /\ \A w \in Inserted : lab.D.nodes_ref[lab.D.trigger[w]] = w

\* the starts of the emitter of widget w
StartsOf(w) == {i \in 1..Len(lab.D.started) : lab.D.started[i] = w}

\* C19: every inserted widget that carries an emitter, nested in containers
\* or not, has exactly one thread running its emitter, started with a
\* trigger of the widget's own uid.
C19_EmitterStartedOnce ==
    lab.kind = "dom" =>
        \A w \in Inserted \cap lab.D.emitters :
            /\ Cardinality(StartsOf(w)) = 1
            /\ \A i \in StartsOf(w) : lab.D.threads[i] = lab.D.trigger[w]

\* C21: after layout resolution every child's layout.w and layout.h are >= 0,
\* for every container size, gap and number of children, the total gap
\* exceeding the per-child share of the parent dimension included.
C21_DimensionsNonNegative ==
    (lab.kind = "flex" /\ lab.passes = 1 /\ lab.status = "ok") =>
        \A k \in 1..Len(lab.kids) :
            lab.kids[k].layout.w >= 0 /\ lab.kids[k].layout.h >= 0

\* ------------------------------------------------------------------------
\* Canvas grid configuration
\* ------------------------------------------------------------------------
\* the step was a set_cell_action call
IsSetCellAction == lab.kind = "canvas" /\ lab'.last.op = "set_cell_action"

\* pos, read as (x, y) from the top-left corner, names a cell of the grid
PosInGrid(g, pos) == g.set /\ pos[1] < g.size.x /\ pos[2] < g.size.y

\* C22: set_cell_action(pos, action) attaches the action to exactly the cell
\* at pos, pos counted as (x, y) from the top-left corner, so that (0,1) is
\* the second cell down in the first column; the action list of every other
\* cell is unchanged; without a grid the call does nothing.
C22_CellActionAtPos ==
    [][ IsSetCellAction =>
          /\ ~lab.grid.set => (lab'.grid = lab.grid /\ lab'.status = "ok")
          /\ PosInGrid(lab.grid, lab'.last.pos) =>
                /\ lab'.status = "ok"
                /\ \A r \in 1..lab.grid.size.y, c \in 1..lab.grid.size.x :
                      lab'.grid.cells[r][c] =
                        IF r = lab'.last.pos[2] + 1 /\ c = lab'.last.pos[1] + 1
                        THEN Append(lab.grid.cells[r][c], lab'.last.action)
                        ELSE lab.grid.cells[r][c]
      ]_vars

\* the step configured a grid with a size of zero on some axis
IsZeroGridCall ==
    /\ lab.kind = "canvas"
    /\ lab'.last.op \in {"set_grid", "set_grid_range"}
    /\ (lab'.last.size[1] = 0 \/ lab'.last.size[2] = 0)

\* C23: set_grid(0, ..) and set_grid_range with a zero component end at once
\* in a fatal error and produce no grid; set_cell_action with a position
\* outside the grid is fatal too.
C23_BadGridConfigIsFatal ==
    [][ /\ IsZeroGridCall => (lab'.status = "panic" /\ lab'.grid = lab.grid)
        /\ (IsSetCellAction /\ lab.grid.set /\ ~PosInGrid(lab.grid, lab'.last.pos)) =>
              (lab'.status = "panic" /\ lab'.grid = lab.grid)
      ]_vars

\* C24: a container that centres its children (halign or valign) never puts
\* a child's origin left of or above its own, a child wider or taller than
\* the container included: the centred coordinate is clamped to zero.
C24_CentredOriginInsideParent ==
    (lab.kind = "flex" /\ lab.passes = 1 /\ lab.status = "ok"
       /\ (lab.halign \/ lab.valign)) =>
        \A k \in 1..Len(lab.kids) :
            /\ lab.kids[k].layout.x >= lab.parent.x
            /\ lab.kids[k].layout.y >= lab.parent.y

IsResolved(policy) ==
    lab.kind = "flex" /\ lab.flex.policy = policy /\ lab.passes = 1 /\ lab.status = "ok"

\* C25: under Col the children are stacked top to bottom in insertion order
\* with a uniform gap, child[i+1].y = child[i].y + child[i].h + gap for every
\* consecutive pair, children of different heights included.
C25_ColStacksWithGap ==
    IsResolved("Col") =>
        \A k \in 1..(Len(lab.kids) - 1) :
            lab.kids[k + 1].layout.y
              = lab.kids[k].layout.y + lab.kids[k].layout.h + lab.gap

\* the lowest bottom edge of the children k..m
RECURSIVE BottomOf(_, _)
BottomOf(k, m) ==
    LET b == lab.kids[k].layout.y + lab.kids[k].layout.h
    IN IF k >= m THEN b ELSE Max(b, BottomOf(k + 1, m))

\* C26: under Grid(cols) child i is in row floor(i/cols) and column i mod
\* cols: inside a row its x is the previous sibling's right edge plus the
\* gap and its y the row's, and a row starts at the x of the first child
\* with its y at the previous row's bottom edge plus the gap; siblings of
\* different widths or heights included.
C26_GridRowsAndColumns ==
    IsResolved("Grid") =>
        \A i \in 1..(Len(lab.kids) - 1) :
            LET cols == lab.flex.cols
                prev == lab.kids[i].layout
                this == lab.kids[i + 1].layout
            IN IF i % cols # 0
               THEN /\ this.x = prev.x + prev.w + lab.gap
                    /\ this.y = prev.y
               ELSE /\ this.x = lab.kids[1].layout.x
                    /\ this.y = BottomOf(i - cols + 1, i) + lab.gap

\* ------------------------------------------------------------------------
\* Scrollbar geometry
\* ------------------------------------------------------------------------
\* the thumb length for a container of length dim whose children extend over
\* extent: dim * (dim / extent) if they overflow, else the whole track
ThumbLength(dim, extent) ==
    IF extent > dim THEN FDiv(dim * dim, extent) ELSE dim

\* C27: after the scrollbar geometry pass the length of each thumb is
\* container_dimension * (container_dimension / total child extent on that
\* axis) when the children overflow the container on that axis, and the
\* container dimension (the full track) when they do not.
C27_ThumbLength ==
    (lab.kind = "bars" /\ lab.passes = 1) =>
        /\ lab.base["sbx"].layout.w = ThumbLength(lab.built.box.w, lab.built.inner.w)
        /\ lab.base["sby"].layout.h = ThumbLength(lab.built.box.h, lab.built.inner.h)

\* ------------------------------------------------------------------------
\* Order of the layout passes
\* ------------------------------------------------------------------------
RECURSIVE Tree_ancestors(_, _)
Tree_ancestors(T, n) ==
    IF n = TreeRoot THEN {} ELSE {T.parent[n]} \cup Tree_ancestors(T, T.parent[n])

StepBefore(steps, i, step) == \E j \in 1..(i - 1) : steps[j] = step

\* every descendant of the container arranged at step i has had its text pass
TextBeforeArrange(T, steps) ==
    \A i \in 1..Len(steps) :
        steps[i][1] = "layout" =>
            \A d \in {"a", "b", "c", "d"} :
                steps[i][2] \in Tree_ancestors(T, d) => StepBefore(steps, i, <<"text", d>>)

\* the parent of the nested container arranged at step i has arranged its
\* own children, the nested container among them
ParentBeforeNested(T, steps) ==
    \A i \in 1..Len(steps) :
        (steps[i][1] = "layout" /\ steps[i][2] # TreeRoot) =>
            StepBefore(steps, i, <<"layout", T.parent[steps[i][2]]>>)

\* C28: in every layout resolution the text pass of every descendant of a
\* container is done before the container arranges its children, and a
\* nested container arranges its children only after its parent arranged its
\* own.
C28_TwoPhaseOrder ==
    lab.kind = "order" =>
        /\ TextBeforeArrange(lab.tree, lab.steps)
        /\ ParentBeforeNested(lab.tree, lab.steps)

\* a resolution of a three-deep tree: a container in a container with a child
C28_Witness ==
    /\ lab.kind = "order"
    /\ lab.passes = 1
    /\ lab.tree.parent = [b |-> "a", c |-> "b", d |-> "c"]
    /\ lab.tree.kind["d"] = "Widget"
    /\ \E i \in 1..Len(lab.steps) : lab.steps[i] = <<"layout", "c">>

\* ------------------------------------------------------------------------
\* Zoom bounds
\* ------------------------------------------------------------------------
IsZoomEvent == lab.kind = "zoom" /\ lab'.calls = lab.calls + 1 /\ lab'.last.type = "MouseWheel"

BoundedZoom == lab.kind = "zoom" /\ lab.zoom.steps.some

\* the clamp window of a widget of this size in a window of this size
ClampWindow(zoom, layout, inner_size) ==
    LET steps == zoom.scale * zoom.steps.v
    IN [min_h |-> f64_abs(layout.h - steps), max_h |-> Min(layout.h + steps, inner_size.height),
        min_w |-> f64_abs(layout.w - steps), max_w |-> Min(layout.w + steps, inner_size.width)]

\* C29: for a Zoom created with step bounds the clamp window is computed at
\* the first zoom event from the widget's size and the window's size at that
\* moment and never changes afterwards; after every zoom event the widget's
\* width is in [min_w, max_w] and its height in [min_h, max_h], and every
\* zoom event requests a redraw.
C29_ZoomWindowOnceAndRespected ==
    [][(BoundedZoom /\ IsZoomEvent) =>
          /\ lab'.zoom.lower_upper.some
          /\ lab'.zoom.lower_upper.v =
                 (IF lab.zoom.lower_upper.some THEN lab.zoom.lower_upper.v
                  ELSE ClampWindow(lab.zoom, lab.layout, lab.inner_size))
          /\ lab'.zoom.lower_upper.v.min_w <= lab'.layout.w
          /\ lab'.layout.w <= lab'.zoom.lower_upper.v.max_w
          /\ lab'.zoom.lower_upper.v.min_h <= lab'.layout.h
          /\ lab'.layout.h <= lab'.zoom.lower_upper.v.max_h
          /\ lab'.redraws = lab.redraws + 1]_vars

\* ------------------------------------------------------------------------
\* Z-order of a full redraw
\* ------------------------------------------------------------------------
\* the positions in the frame at which w is painted
PaintsOf(w) == {i \in 1..Len(frame) : frame[i] = <<"paint", w>>}

AllBefore(I, J) == \A i \in I, j \in J : i < j

\* C30: in a full redraw the children of every container are painted after
\* the container's background and its scrollbars after all of its children; no
\* child is painted again after the container's scrollbars, and each widget
\* of the tree is painted once.
C30_ZOrderPaintedOnce ==
    lastEvent.type = "RedrawRequested" =>
        /\ \A w \in Widgets : Cardinality(PaintsOf(w)) = 1
        /\ \A c \in {w \in Widgets : Kind(w) = "Container"} :
              \A k \in {children(c)[n] : n \in 1..Len(children(c))} :
                 /\ AllBefore(PaintsOf(c), PaintsOf(k))
                 /\ \A n \in 1..Len(scrollbar(c)) :
                       AllBefore(PaintsOf(k), PaintsOf(scrollbar(c)[n]))

\* ------------------------------------------------------------------------
\* Dirty redraws
\* ------------------------------------------------------------------------
\* the widget, its descendants, its scrollbars and its cells
RECURSIVE Subtree(_)
Subtree(w) ==
    {w} \cup {scrollbar(w)[n] : n \in 1..Len(scrollbar(w))}
        \cup (IF Kind(w) = "Canvas" /\ grid_size(w).x > 0
              THEN {on_cell(w)[k].cell : k \in DOMAIN on_cell(w)} ELSE {})
        \cup UNION {Subtree(children(w)[n]) : n \in 1..Len(children(w))}

IsUpdateStep ==
    /\ channel # <<>>
    /\ Head(channel).kind = "Update"
    /\ lastEvent' = UserEvent(Head(channel))
    /\ actor' = UiThread

\* C31: processing Signal::Update(id) clears only the rectangle of the widget
\* registered under id, redraws that widget with its subtree and presents the
\* frame; no widget's layout, style, offset or hover state changes, and each
\* Update signal taken from the queue gives one such redraw, whatever is
\* queued behind it.
C31_UpdateIsDirtyRedraw ==
    [][IsUpdateStep =>
          LET w == nodes_ref[Head(channel).uid]
              l == base[w].layout
              n == Len(frame')
          IN /\ frame'[1] = <<"dirty_clear", l.x, l.y, l.h, l.w>>
             /\ frame'[n] = <<"present">>
             /\ \A i \in 2..(n - 1) : frame'[i][1] = "paint"
             /\ {frame'[i][2] : i \in 2..(n - 1)} = Subtree(w)
             /\ n - 2 = Cardinality(Subtree(w))
             /\ base' = base
             /\ actions' = actions
             /\ channel' = Tail(channel)]_vars

\* an Update for a widget was processed while a second Update for the same
\* widget is still queued behind it
C31_Witness ==
    /\ lastEvent.type = "UserEvent"
    /\ lastEvent.signal.kind = "Update"
    /\ frame # <<>>
    /\ frame[1][1] = "dirty_clear"
    /\ channel # <<>>
    /\ Head(channel) = lastEvent.signal

\* ------------------------------------------------------------------------
\* Hit-testing and scrolling
\* ------------------------------------------------------------------------
\* the rectangle "inner" is drawn in: its layout moved by its offset
DrawnRect(b) == [b.layout EXCEPT !.x = @ + b.offset.x, !.y = @ + b.offset.y]

InnerClicked ==
    \E k \in 1..Len(invoked) : invoked[k].w = "inner"

\* C32: hit-testing uses the layout rectangle only, never the scroll offset:
\* every cursor move sets the Hover state and the Click's hovered flag of the
\* scrolled child to "the cursor is inside its layout rectangle", and a press
\* of the left button runs its Click callback exactly when that flag is set,
\* wherever the child is drawn.
C32_HitTestIgnoresOffset ==
    [][/\ lastEvent'.type = "CursorMoved" =>
            /\ actions'["inner"][1].hovered =
                   InsideRect(base'["inner"].layout, cursor_position')
            /\ base'["inner"].hovered =
                   InsideRect(base'["inner"].layout, cursor_position')
       /\ (lastEvent'.type = "MouseInput" /\ lastEvent'.state = "Pressed") =>
            /\ InnerClicked' <=> base["inner"].hovered
            /\ base'["inner"].hovered = base["inner"].hovered
            /\ actions'["inner"][1].hovered = actions["inner"][1].hovered
      ]_vars

\* the container is scrolled and the cursor is inside the child's drawn
\* rectangle but outside its layout rectangle: no hover, and a press does
\* not reach the child
C32_Witness ==
    /\ base["inner"].offset.x < 0
    /\ lastEvent.type = "MouseInput" /\ lastEvent.state = "Pressed"
    /\ InsideRect(DrawnRect(base["inner"]), cursor_position)
    /\ ~InsideRect(base["inner"].layout, cursor_position)
    /\ ~actions["inner"][1].hovered
    /\ ~InnerClicked

\* ------------------------------------------------------------------------
\* Layout resolution across frames
\* ------------------------------------------------------------------------
\* C33: layout resolution is idempotent across frames: a second pre-render
\* pass on the same tree, with no event in between, leaves every child's
\* layout rectangle as the first pass produced it, for every flex policy and
\* every parent origin.
C33_LayoutIdempotent ==
    [][(lab.kind = "flex" /\ lab.passes = 1 /\ lab'.passes = 2 /\ lab'.status = "ok") =>
          \A k \in 1..Len(lab.kids) : lab'.kids[k].layout = lab.kids[k].layout]_vars

\* ------------------------------------------------------------------------
\* Triggers and the routing table
\* ------------------------------------------------------------------------
\* the uids carried by the triggers handed out so far: those of the widgets
\* (passed on to their actions) and those of the emitter threads
TriggerUids(D) ==
    {D.trigger[w] : w \in DOMAIN D.trigger} \cup {D.threads[i] : i \in 1..Len(D.threads)}

\* C34: every uid carried by a trigger the DOM handed to a widget, an action
\* or an emitter is a key of the routing table as soon as the trigger exists
\* and stays one (no key is ever removed), so the lookup of a signal's id
\* cannot fail.
C34_TriggerUidsRouted ==
    [][lab'.kind = "dom" =>
          /\ TriggerUids(lab'.D) \subseteq DOMAIN lab'.D.nodes_ref
          /\ DOMAIN lab.D.nodes_ref \subseteq DOMAIN lab'.D.nodes_ref]_vars

\* every widget is inserted, nested emitters are running, and the generator
\* returned one value twice, so that an entry of the table was overwritten
C34_Witness ==
    /\ lab.kind = "dom"
    /\ lab.added = Len(TopLevel)
    /\ "kid" \in lab.D.emitters
    /\ Len(lab.D.threads) > 1
    /\ lab.D.trigger["box"] = lab.D.trigger["c00"]
    /\ lab.D.nodes_ref[lab.D.trigger["box"]] = "c00"

\* ------------------------------------------------------------------------
\* Colour changes under the cursor
\* ------------------------------------------------------------------------
\* C35: a colour set on a widget while it is hovered is not lost when the
\* cursor leaves: if at hover exit the widget has a colour other than the
\* hover colour, set since the entry, it has that colour after the exit.
C35_ColourSetWhileHoveredKept ==
    [][(/\ actions["btn"][1].hovered
        /\ ~actions'["btn"][1].hovered
        /\ base["btn"].color # actions["btn"][1].hover_color) =>
          base'["btn"].color = base["btn"].color]_vars

\* ------------------------------------------------------------------------
\* Hovered grid cells across redraws
\* ------------------------------------------------------------------------
\* C36: a hovered grid cell keeps its hover colour across redraws: the grid
\* pass before a redraw changes the cells' layout only, so between hover entry
\* and hover exit the cell has, and is drawn in, the hover colour.
C36_HoveredCellKeepsColour ==
    \A c \in {"c00", "c10"} :
        actions[c][1].hovered => base[c].color = actions[c][1].hover_color

\* ------------------------------------------------------------------------
\* Scrolling containers without children
\* ------------------------------------------------------------------------
\* C37: layout resolution and scroll handling of a container that has
\* scrollbars but no children complete without a fatal error: neither the
\* scrollbar geometry pass nor the scroll-range computation of the y axis
\* fails on an empty child list.
C37_EmptyContainerNoPanic ==
    (lab.kind = "bare" /\ lab.kids = <<>>) => lab.status = "ok"

\* ------------------------------------------------------------------------
\* The cached clamp window
\* ------------------------------------------------------------------------
\* C38: for a Zoom with step bounds the cached clamp window always has
\* min_w <= max_w and min_h <= max_h, for every widget size, step count, scale
\* and window size, so clamping the zoomed size never fails.
C38_ClampWindowOrdered ==
    (lab.kind = "zoom" /\ lab.zoom.lower_upper.some) =>
        /\ lab.zoom.lower_upper.v.min_w <= lab.zoom.lower_upper.v.max_w
        /\ lab.zoom.lower_upper.v.min_h <= lab.zoom.lower_upper.v.max_h
        /\ lab.status = "ok"

\* ------------------------------------------------------------------------
\* Signals sent after the event loop has exited
\* ------------------------------------------------------------------------
\* C39: a Trigger::update or Trigger::update_callback call made when the event
\* loop is no longer running is a silent no-op: the call returns, the
\* emitter thread goes on to its next call, nothing is queued and no widget
\* or action changes.
C39_SendAfterExitIsNoOp ==
    [][(~running /\ actor' # UiThread /\ sent' # sent) =>
          /\ channel' = channel
          /\ base' = base
          /\ actions' = actions
          /\ ~running'
          /\ \E t \in Threads : sent' = [sent EXCEPT ![t] = @ + 1]]_vars

\* an emitter made both of its update_callback calls after the loop had
\* exited: nothing of it was queued or applied
C39_Witness ==
    /\ ~running
    /\ \E t \in CallbackThreads :
          /\ actor = EmitterThread(t)
          /\ sent[t] = 2
          /\ applied[t] = 0
          /\ Pending(t) = 0

====
